---- MODULE Spec2Model ----
(***************************************************************************)
(* The document library backend (Express server): the in-memory record     *)
(* store pdfsDatabase, its persisted copy database.json, the request       *)
(* handlers of /api/upload, /api/rag/reprocess/:id, /api/pdfs/:id and      *)
(* /api/pdfs, and the background ingestion functions                       *)
(* processPdfsWithRagBatch, processPdfWithRag and rechunkPdf.              *)
(*                                                                         *)
(* JavaScript runs every handler to its next await without interleaving,   *)
(* so one action is one such run: from the request (or from the answer of  *)
(* the awaited fetch) to the next await (or the end of the function).      *)
(* Arrays are 1-based here; index 0 stands for findIndex's -1.             *)
(***************************************************************************)
EXTENDS Integers, Sequences, FiniteSets, Bags, TLC

\* ------------------------------------------------------------- bounds
MaxDocs == 2        \* identifiers ever created by uploads
MaxBatch == 2       \* files in one upload request
MaxOps == 2         \* upload, reprocess and delete requests accepted
MaxChunks == 1      \* largest chunks_created the Retrieval Service answers
MaxOptionOps == 1   \* requests accepted when they carry processing options
MaxByIdOps == 1     \* requests that name a record, known or not

Ids == 1..MaxDocs
NULL == "null"

\* What the Retrieval Service can answer (the inputs of the completion steps).
NetErrors == {"fetch failed"}
HttpBodies == {"boom"}
ItemErrors == {"bad pdf"}
\* chunks_created as answered: none, or the largest count.
ChunkCounts == {0, MaxChunks}

VARIABLES
    pdfsDatabase,   \* the record store: a sequence of records
    disk,           \* database.json: what saveDatabase wrote last
    nextId,         \* identifiers created so far (uuidv4 is fresh each time)
    nextTask,       \* upload, reprocess and delete requests accepted so far
    tasks,          \* the async functions suspended at an await fetch(...),
                    \* a bag: two identical requests are two tasks
    overlapped,     \* history: identifiers reprocessed while already in flight
    succeeded,      \* history: identifiers that have been marked success
    last,           \* history: the step that led to this state
    messages,       \* Chatbot: the transcript shown (useState messages)
    isLoading,      \* Chatbot: the pending indicator
    ragEnabled,     \* Chatbot: the retrieval toggle
    ragAvailable,   \* Chatbot: what checkRagStatus found
    turns,          \* Chatbot: the handleSendMessage calls, by start order,
                    \* each with its closure variables and its position
    clock,          \* Chatbot: Date.now()
    chatsDatabase,  \* the session store of the server
    saves,          \* Chatbot: the saveCurrentChat calls, by start order
    currentChatId,  \* Chatbot: the identifier of the session shown
    ragService      \* the Retrieval Service as GET /config finds it

libVars == <<pdfsDatabase, disk, nextId, nextTask, tasks, overlapped, succeeded>>
chatVars == <<messages, isLoading, ragEnabled, ragAvailable, turns, clock>>
sessionVars == <<chatsDatabase, saves, currentChatId>>
vars == <<pdfsDatabase, disk, nextId, nextTask, tasks, overlapped, succeeded, last,
          messages, isLoading, ragEnabled, ragAvailable, turns, clock,
          chatsDatabase, saves, currentChatId, ragService>>

\* ------------------------------------------------------------- records
NewRecord(id) ==
    [id |-> id, tags |-> <<>>, ragStatus |-> "processing", ragError |-> NULL,
     chunksCount |-> 0]

\* Array.prototype.findIndex(p => p.id === id): the first match, 0 for -1.
FindIndex(db, id) ==
    IF \E i \in 1..Len(db) : db[i].id = id
    THEN CHOOSE i \in 1..Len(db) :
            /\ db[i].id = id
            /\ \A j \in 1..(i - 1) : db[j].id # id
    ELSE 0

\* Array.prototype.splice(i, 1): removes the element at i, nothing when i is
\* past the end.
Splice(db, i) ==
    IF i \in 1..Len(db)
    THEN [j \in 1..(Len(db) - 1) |-> IF j < i THEN db[j] ELSE db[j + 1]]
    ELSE db

InStore(db, id) == FindIndex(db, id) # 0
Rec(db, id) == db[FindIndex(db, id)]

\* ------------------------------------------------------------- messages
\* Error.message of the three throw sites and of a rejected fetch.
SingleHttpMessage(body) == "RAG service error: " \o body
BatchHttpMessage(body) == "RAG batch service error: " \o body

NoResults == [i \in {} |-> 0]
NoResp == [st |-> "none", chunks |-> 0, err |-> NULL, results |-> NoResults]
OkResp(n) == [st |-> "ok", chunks |-> n, err |-> NULL, results |-> NoResults]
NetResp(e) == [st |-> "net", chunks |-> 0, err |-> e, results |-> NoResults]
HttpResp(b) == [st |-> "http", chunks |-> 0, err |-> b, results |-> NoResults]
BatchResp(r) == [st |-> "ok", chunks |-> 0, err |-> NULL, results |-> r]

\* One element of result.results.
Items ==
    [success : {TRUE}, chunks_created : ChunkCounts, error : {NULL}]
    \cup [success : {FALSE}, chunks_created : {0}, error : ItemErrors]

SingleResps ==
    {OkResp(n) : n \in ChunkCounts}
    \cup {NetResp(e) : e \in NetErrors}
    \cup {HttpResp(b) : b \in HttpBodies}

Range(s) == {s[i] : i \in 1..Len(s)}

\* result.results of /process-batch for a batch: one item for some of the
\* submitted identifiers.
BatchResults(ids) ==
    UNION {[S -> Items] : S \in SUBSET Range(ids)}

BatchResps(ids) ==
    {BatchResp(r) : r \in BatchResults(ids)}
    \cup {NetResp(e) : e \in NetErrors}
    \cup {HttpResp(b) : b \in HttpBodies}

\* What a DELETE to the Retrieval Service can answer: done, no such entry
\* or another error status, or no answer at all.
DeleteIndexResps ==
    {OkResp(0)}
    \cup {NetResp(e) : e \in NetErrors}
    \cup {HttpResp(b) : b \in HttpBodies}

\* ------------------------------------------------------------- options
\* processingOptions as a handler holds them: each of the three settings is
\* a JSON string, null, or missing; rechunkOnly is whether it "=== true".
UNDEFINED == "undefined"

Truthy(v) == v \notin {UNDEFINED, NULL, ""}

Options(e, c, w, rechunkOnly) ==
    [extractor_mode |-> e, chunker_mode |-> c, merge_window |-> w,
     rechunkOnly |-> rechunkOnly]

\* "let processingOptions = {}" of the reprocess handler, and the same with
\* rechunkOnly: true.
EmptyOptions == Options(UNDEFINED, UNDEFINED, UNDEFINED, FALSE)
RechunkOnlyOptions == Options(UNDEFINED, UNDEFINED, UNDEFINED, TRUE)

\* What the Retrieval Service's /config advertises; these are the values
\* the /api/rag/config route answers with when it cannot be reached.
AdvertisedExtractors == {"text", "vision"}
AdvertisedChunkers == {"semantic", "agentic"}
AdvertisedWindows == {"0", "1", "2", "3", "4", "5"}

Advertised(f) ==
    CASE f = "extractor_mode" -> AdvertisedExtractors
      [] f = "chunker_mode" -> AdvertisedChunkers
      [] f = "merge_window" -> AdvertisedWindows

OptionNames == {"extractor_mode", "chunker_mode", "merge_window"}

\* What callers put into processingOptions: a caller is free to send a
\* value that is not advertised.
ExtractorInputs == {UNDEFINED, "vision"}
ChunkerInputs == {UNDEFINED, "semantic"}
WindowInputs == {UNDEFINED, "9"}
OptionInputs ==
    {Options(e, c, w, b) : e \in ExtractorInputs, c \in ChunkerInputs,
                           w \in WindowInputs, b \in BOOLEAN}

\* The upload handler's processingOptions, from the parsed request field
\* (no field: parsed is EmptyOptions and all three are null).
UploadOptions(parsed) ==
    Options(IF Truthy(parsed.extractor_mode) THEN parsed.extractor_mode ELSE NULL,
            IF Truthy(parsed.chunker_mode) THEN parsed.chunker_mode ELSE NULL,
            IF parsed.merge_window # UNDEFINED THEN parsed.merge_window ELSE NULL,
            FALSE)

\* The settings spread into the body of /process-pdf-path and
\* /process-batch: each one only "if provided".
Provided(o) ==
    {f \in {"extractor_mode", "chunker_mode"} : Truthy(o[f])}
    \cup {f \in {"merge_window"} : o[f] # NULL /\ o[f] # UNDEFINED}

\* JSON bodies, as functions from the keys present to their values; the
\* record's filename, tags and file path are left out.
NoBody == [f \in {} |-> NULL]

ProcessBody(id, o) ==
    [f \in {"pdf_id"} \cup Provided(o) |-> IF f = "pdf_id" THEN id ELSE o[f]]

BatchBody(ids, o) ==
    [f \in {"items"} \cup Provided(o) |-> IF f = "items" THEN ids ELSE o[f]]

\* The body of /rechunk with the extractor setting passed on as well.
RechunkBodyWithExtractor(id, o) ==
    [pdf_id |-> id,
     extractor_mode |-> IF Truthy(o.extractor_mode) THEN o.extractor_mode ELSE NULL,
     chunker_mode |-> IF Truthy(o.chunker_mode) THEN o.chunker_mode ELSE NULL,
     merge_window |-> IF o.merge_window # UNDEFINED THEN o.merge_window ELSE NULL]

RechunkBody(id, o) ==
    [pdf_id |-> id,
     chunker_mode |-> IF Truthy(o.chunker_mode) THEN o.chunker_mode ELSE NULL,
     merge_window |-> IF o.merge_window # UNDEFINED THEN o.merge_window ELSE NULL]

\* ------------------------------------------------------------- writes
\* The three groups of assignments to pdfsDatabase[pdfIndex].
MarkSuccessNoCount(db, i, n) ==
    [db EXCEPT ![i].ragStatus = "success", ![i].ragError = NULL]

MarkSuccessKeepError(db, i, n) ==
    [db EXCEPT ![i].ragStatus = "success", ![i].chunksCount = n]

MarkSuccess(db, i, n) ==
    [db EXCEPT ![i].ragStatus = "success", ![i].ragError = NULL,
               ![i].chunksCount = n]

MarkFailedResetCount(db, i, msg) ==
    [db EXCEPT ![i].ragStatus = "failed", ![i].ragError = msg,
               ![i].chunksCount = 0]

MarkFailed(db, i, msg) ==
    [db EXCEPT ![i].ragStatus = "failed", ![i].ragError = msg]

MarkProcessingKeepError(db, i) ==
    [db EXCEPT ![i].ragStatus = "processing"]

MarkProcessingErrorOnly(db, i) ==
    [db EXCEPT ![i].ragError = NULL]

MarkProcessing(db, i) ==
    [db EXCEPT ![i].ragStatus = "processing", ![i].ragError = NULL]

\* ------------------------------------------------------------- one run
\* The effects of one run of a handler are threaded through m: the store,
\* the file, and the fetch the run started (at most one, then it awaits).
\* reply is the HTTP status the run answered its request with, if it did.
NoReply == 0
Created == 201
Ok == 200
NotFound == 404

Machine == [db |-> pdfsDatabase, disk |-> disk, out |-> <<>>, reply |-> NoReply]

\* res.status(code).json(...)
Reply(m, code) == [m EXCEPT !.reply = code]

SaveDatabase(m) == [m EXCEPT !.disk = m.db]

\* All of ids are on disk with status processing.
DiskProcessing(dk, ids) ==
    \A id \in Range(ids) : InStore(dk, id) /\ Rec(dk, id).ragStatus = "processing"

\* fetch(...): the request leaves now. persisted notes whether the records
\* it concerns were on disk as processing when it (or an earlier request of
\* the same handler) left.
\* from notes the status the record had when its operation began.
Fetch(m, from, kind, ids, idx, opts, body, prior) ==
    [m EXCEPT !.out = Append(@,
        [kind |-> kind, ids |-> ids, idx |-> idx,
         rechunkOnly |-> opts.rechunkOnly, opts |-> opts, body |-> body,
         from |-> from,
         persisted |-> prior \/ DiskProcessing(m.disk, ids)])]

\* processPdfWithRag up to its await.
ProcessPdfWithRag(m, from, id, opts, prior) ==
    Fetch(m, from, "single", <<id>>, 0, opts, ProcessBody(id, opts), prior)

\* rechunkPdf up to its await.
RechunkPdf(m, from, id, opts, prior) ==
    Fetch(m, from, "rechunk", <<id>>, 0, opts, RechunkBody(id, opts), prior)

\* processPdfsWithRagBatch without the shortcut for one file.
ProcessPdfsWithRagBatchAlways(m, from, ids, opts, prior) ==
    IF Len(ids) = 0 THEN m
    ELSE Fetch(m, from, "batch", ids, 0, opts, BatchBody(ids, opts), prior)

\* processPdfsWithRagBatch up to its await.
ProcessPdfsWithRagBatch(m, from, ids, opts, prior) ==
    IF Len(ids) = 0 THEN m
    ELSE IF Len(ids) = 1 THEN ProcessPdfWithRag(m, from, ids[1], opts, prior)
    ELSE Fetch(m, from, "batch", ids, 0, opts, BatchBody(ids, opts), prior)

\* The upload handler with the processing started before the save.
UploadRunSendFirst(m, ids, parsed) ==
    LET m1 == [m EXCEPT !.db = m.db \o [k \in 1..Len(ids) |-> NewRecord(ids[k])]]
        m2 == ProcessPdfsWithRagBatch(m1, "new", ids, UploadOptions(parsed), FALSE)
    IN  Reply(SaveDatabase(m2), Created)

\* The upload handler awaiting the processing before it answers.
UploadRunAwaiting(m, ids, parsed) ==
    LET m1 == [m EXCEPT !.db = m.db \o [k \in 1..Len(ids) |-> NewRecord(ids[k])]]
        m2 == SaveDatabase(m1)
    IN  ProcessPdfsWithRagBatch(m2, "new", ids, UploadOptions(parsed), FALSE)

\* POST /api/upload with files: push the records, save, start processing.
UploadRun(m, ids, parsed) ==
    LET m1 == [m EXCEPT !.db = m.db \o [k \in 1..Len(ids) |-> NewRecord(ids[k])]]
        m2 == SaveDatabase(m1)
    IN  Reply(ProcessPdfsWithRagBatch(m2, "new", ids, UploadOptions(parsed), FALSE),
              Created)

\* POST /api/rag/reprocess/:id for a record at index i, up to the await of
\* the delete-index fetch.
ReprocessRun(m, i, opts) ==
    LET id == m.db[i].id
        m1 == [m EXCEPT !.db = MarkProcessing(m.db, i)]
        m2 == SaveDatabase(m1)
    IN  Fetch(m2, m.db[i].ragStatus, "reprocessDel", <<id>>, 0, opts, NoBody, FALSE)

\* The reprocess handler giving up when the delete-index fetch failed.
ReprocessResumeUnlessFailed(m, t, r) ==
    IF r.st # "ok" THEN Reply(m, Ok)
    ELSE IF t.opts.rechunkOnly
    THEN Reply(RechunkPdf(m, t.from, t.ids[1], t.opts, t.persisted), Ok)
    ELSE Reply(ProcessPdfWithRag(m, t.from, t.ids[1], t.opts, t.persisted), Ok)

\* The reprocess handler asking the Retrieval Service before it looks the
\* record up.
ReprocessRequestFetchFirst(m, id, opts) ==
    LET i == FindIndex(m.db, id)
        m1 == Fetch(m, "absent", "reprocessDel", <<id>>, 0, opts, NoBody, FALSE)
    IN  IF i = 0 THEN Reply(m1, NotFound) ELSE ReprocessRun(m, i, opts)

\* POST /api/rag/reprocess/:id, the whole first run: 404 for an unknown id.
ReprocessRequest(m, id, opts) ==
    LET i == FindIndex(m.db, id) IN
    IF i = 0 THEN Reply(m, NotFound) ELSE ReprocessRun(m, i, opts)

\* ... and after it: the answer r of the delete-index fetch is not looked
\* at, and its rejection is caught and dropped. Then the request is answered.
ReprocessResume(m, t, r) ==
    IF t.opts.rechunkOnly
    THEN Reply(RechunkPdf(m, t.from, t.ids[1], t.opts, t.persisted), Ok)
    ELSE Reply(ProcessPdfWithRag(m, t.from, t.ids[1], t.opts, t.persisted), Ok)

\* The message of the error caught by the catch block of a processing
\* function: a rejected fetch's own message, or the thrown Error's.
SingleMessage(r) == IF r.st = "net" THEN r.err ELSE SingleHttpMessage(r.err)
BatchMessage(r) == IF r.st = "net" THEN r.err ELSE BatchHttpMessage(r.err)

\* processPdfWithRag trying again by itself after a failure.
ProcessPdfWithRagDoneRetry(m, id, r) ==
    LET i == FindIndex(m.db, id) IN
    IF i = 0 THEN m
    ELSE IF r.st = "ok"
    THEN SaveDatabase([m EXCEPT !.db = MarkSuccess(m.db, i, r.chunks)])
    ELSE ProcessPdfWithRag(
            SaveDatabase([m EXCEPT !.db = MarkFailed(m.db, i, SingleMessage(r))]),
            "failed", id, EmptyOptions, TRUE)

\* processPdfWithRag after its await.
ProcessPdfWithRagDone(m, id, r) ==
    LET i == FindIndex(m.db, id) IN
    IF i = 0 THEN m
    ELSE IF r.st = "ok"
    THEN SaveDatabase([m EXCEPT !.db = MarkSuccess(m.db, i, r.chunks)])
    ELSE SaveDatabase([m EXCEPT !.db = MarkFailed(m.db, i, SingleMessage(r))])

\* rechunkPdf writing where the record stood, without looking it up.
RechunkPdfDoneStaleIndex(m, id, r) ==
    LET i == IF FindIndex(m.db, id) = 0 /\ m.db # <<>> THEN 1 ELSE FindIndex(m.db, id) IN
    IF i = 0 THEN m
    ELSE IF r.st = "ok"
    THEN SaveDatabase([m EXCEPT !.db = MarkSuccess(m.db, i, r.chunks)])
    ELSE SaveDatabase([m EXCEPT !.db = MarkFailed(m.db, i, SingleMessage(r))])

\* rechunkPdf after its await.
RechunkPdfDone(m, id, r) ==
    LET i == FindIndex(m.db, id) IN
    IF i = 0 THEN m
    ELSE IF r.st = "ok"
    THEN SaveDatabase([m EXCEPT !.db = MarkSuccess(m.db, i, r.chunks)])
    ELSE SaveDatabase([m EXCEPT !.db = MarkFailed(m.db, i, SingleMessage(r))])

\* The loop body dropping the item's error.
ApplyItemNoError(db, id, item) ==
    LET i == FindIndex(db, id) IN
    IF i = 0 THEN db
    ELSE IF item.success THEN MarkSuccess(db, i, item.chunks_created)
    ELSE MarkFailed(db, i, NULL)

\* The body of "for (const item of result.results)".
ApplyItem(db, id, item) ==
    LET i == FindIndex(db, id) IN
    IF i = 0 THEN db
    ELSE IF item.success THEN MarkSuccess(db, i, item.chunks_created)
    ELSE MarkFailed(db, i, item.error)

\* The loop over result.results leaving at the first failed item.
RECURSIVE ApplyResultsStopAtFailure(_, _, _, _)
ApplyResultsStopAtFailure(db, ids, results, k) ==
    IF k > Len(ids) THEN db
    ELSE IF ids[k] \in DOMAIN results /\ ~results[ids[k]].success
    THEN ApplyItem(db, ids[k], results[ids[k]])
    ELSE ApplyResultsStopAtFailure(
            IF ids[k] \in DOMAIN results
            THEN ApplyItem(db, ids[k], results[ids[k]]) ELSE db,
            ids, results, k + 1)

RECURSIVE ApplyResults(_, _, _, _)
ApplyResults(db, ids, results, k) ==
    IF k > Len(ids) THEN db
    ELSE ApplyResults(
            IF ids[k] \in DOMAIN results
            THEN ApplyItem(db, ids[k], results[ids[k]]) ELSE db,
            ids, results, k + 1)

\* The catch block marking only the first record of the batch.
FailFirstOnly(db, ids, msg, k) ==
    LET i == FindIndex(db, ids[1]) IN
    IF i = 0 THEN db ELSE MarkFailed(db, i, msg)

\* The body of "for (const pdf of pdfs)" in the catch block.
RECURSIVE FailAll(_, _, _, _)
FailAll(db, ids, msg, k) ==
    IF k > Len(ids) THEN db
    ELSE LET i == FindIndex(db, ids[k]) IN
         FailAll(IF i = 0 THEN db ELSE MarkFailed(db, i, msg), ids, msg, k + 1)

\* processPdfsWithRagBatch after its await.
ProcessPdfsWithRagBatchDone(m, ids, r) ==
    IF r.st = "ok"
    THEN SaveDatabase([m EXCEPT !.db = ApplyResults(m.db, ids, r.results, 1)])
    ELSE SaveDatabase([m EXCEPT !.db = FailAll(m.db, ids, BatchMessage(r), 1)])

\* DELETE /api/pdfs/:id up to its await: 404 for an unknown id.
DeleteRequest(m, id) ==
    LET i == FindIndex(m.db, id) IN
    IF i = 0 THEN Reply(m, NotFound)
    ELSE Fetch(m, m.db[i].ragStatus, "delete", <<id>>, i, EmptyOptions, NoBody, FALSE)

\* PUT /api/pdfs/:id/tags up to its await: 404 for an unknown id, else the
\* tags are stored and saved and the Retrieval Service is told.
TagsRequest(m, id, tags) ==
    LET i == FindIndex(m.db, id) IN
    IF i = 0 THEN Reply(m, NotFound)
    ELSE Fetch(SaveDatabase([m EXCEPT !.db[i].tags = tags]),
               m.db[i].ragStatus, "tags", <<id>>, i, EmptyOptions,
               [pdf_id |-> id, tags |-> tags], FALSE)

\* ... and after it: the answer is not looked at.
TagsResume(m, t, r) == Reply(m, Ok)

\* DELETE /api/pdfs/:id after its await: pdfIndex was read before it.
DeleteResume(m, t, r) ==
    Reply(SaveDatabase([m EXCEPT !.db = Splice(m.db, t.idx)]), Ok)

\* DELETE /api/pdfs after its await.
DeleteAllResume(m, r) ==
    Reply(SaveDatabase([m EXCEPT !.db = <<>>]), Ok)

\* ------------------------------------------------------------- history
Ingesting == {"single", "batch", "rechunk", "reprocessDel"}

Tasks == BagToSet(tasks)

\* An ingestion operation for id is in flight.
Busy(id) == \E t \in Tasks : t.kind \in Ingesting /\ id \in Range(t.ids)

\* The step taken: the operation, the records it is about, the status they
\* had when the operation began, the Retrieval Service's answer that the
\* step resumed with, and the HTTP status the step answered its client with.
Label(op, ids, from, r) ==
    [op |-> op, ids |-> ids, from |-> from, resp |-> r, reply |-> NoReply]

\* The end of a run: m becomes the state; done is the task that ran, if any.
Commit(m, done, lbl) ==
    /\ pdfsDatabase' = m.db
    /\ disk' = m.disk
    /\ tasks' = (tasks (-) SetToBag(done)) (+) SetToBag(Range(m.out))
    /\ succeeded' = succeeded \cup
            {id \in Ids : InStore(m.db, id) /\ Rec(m.db, id).ragStatus = "success"}
    /\ last' = [lbl EXCEPT !.reply = m.reply]
    /\ UNCHANGED <<chatVars, sessionVars, ragService>>

\* ------------------------------------------------------------- Chatbot
\* The chat panel (Chatbot component) and its handleSendMessage.  A text is
\* a sequence of tokens: '' is <<>>, s + t is s \o t, and a text is truthy
\* exactly when it is not empty.  A message without sources (absent, or
\* null) has sources <<>>.
MaxTurns == 1      \* handleSendMessage calls in one behaviour
MaxSends == 2      \* the same, where turns overlap

GreetingText == <<"Hello! How can I help you with your PDF library today?">>
FallbackText ==
    <<"Sorry, I couldn't connect to the AI service. Please make sure LM Studio is running.">>
Inputs == {<<"q">>}

Message(id, text, sender, sources) ==
    [id |-> id, text |-> text, sender |-> sender, sources |-> sources]
Greeting == Message(1, GreetingText, "bot", <<>>)

\* What the Retrieval Service returns: results in its order.
Hit(filename, page, tags, text, similarity) ==
    [filename |-> filename, page |-> page, tags |-> tags, text |-> text,
     similarity |-> similarity]
HitA == Hit("a.pdf", "1", <<"law">>, "alpha", "0.5")
HitB == Hit("b.pdf", "2", <<>>, "beta", "0.9")
ResultLists == {<<>>, <<HitA>>, <<HitA, HitB>>}

Source(r) == [filename |-> r.filename, page |-> r.page, similarity |-> r.similarity]
Sources(results) == [i \in DOMAIN results |-> Source(results[i])]

RECURSIVE Join(_, _)
Join(texts, sep) ==
    IF texts = <<>> THEN <<>>
    ELSE IF Len(texts) = 1 THEN texts[1]
    ELSE texts[1] \o sep \o Join(Tail(texts), sep)

ContextEntry(r, i) == <<"[Source", ToString(i), r.filename, "Page", r.page, "]", r.text>>
RagContext(results) ==
    Join([i \in DOMAIN results |-> ContextEntry(results[i], i)], <<"---">>)

\* The outcomes of an awaited fetch, as handleSendMessage tells them apart.
NetOutcome == [kind |-> "net", results |-> <<>>]
HttpOutcome == [kind |-> "http", results |-> <<>>]
OkOutcome(results) == [kind |-> "ok", results |-> results]
NoOutcome == [kind |-> "none", results |-> <<>>]
ServiceOutcomes == {NetOutcome, HttpOutcome} \cup {OkOutcome(r) : r \in ResultLists}

\* POST /api/rag/query of the backend: relays the service's answer, and
\* answers 500 when the service cannot be reached or refuses.
RagQueryRelay(o) == IF o.kind = "ok" THEN o ELSE HttpOutcome
RetrievalOutcomes == {NetOutcome} \cup {RagQueryRelay(o) : o \in ServiceOutcomes}

\* messages.filter(msg => msg.text && !msg.sources).map(...)
ConversationHistory(msgs) ==
    LET keep == SelectSeq(msgs, LAMBDA msg : msg.text # <<>> /\ msg.sources = <<>>)
    IN  [i \in DOMAIN keep |->
            [role |-> IF keep[i].sender = "user" THEN "user" ELSE "assistant",
             content |-> keep[i].text]]

FinalUserContent(ragContext, userInput) ==
    IF ragContext # <<>>
    THEN <<"Use the following context", "CONTEXT:">> \o ragContext
            \o <<"QUESTION:">> \o userInput \o <<"Instructions:">>
    ELSE userInput

\* A call of handleSendMessage: its closure variables and where it stands.
Turn(userInput, botMessageId, history, enabled) ==
    [pc |-> "start", userInput |-> userInput, botMessageId |-> botMessageId,
     history |-> history, ragEnabled |-> enabled,
     queried |-> FALSE, retrieval |-> NoOutcome, ragContext |-> <<>>, sources |-> <<>>,
     request |-> <<>>, generation |-> "none",
     stream |-> <<>>, pending |-> FALSE, written |-> <<>>,
     fullText |-> <<>>, messageCreated |-> FALSE,
     left |-> FALSE]    \* history: the transcript was replaced meanwhile

\* The chat state one run works on.
Chat(msgs, loading, t) == [messages |-> msgs, isLoading |-> loading, turn |-> t]

\* Lines 842-877: the history of the closure's messages, then the new
\* message, sent to the Generation Service.
SendGeneration(c) ==
    LET t == c.turn
        conversationHistory ==
            Append(ConversationHistory(t.history),
                   [role |-> "user",
                    content |-> FinalUserContent(t.ragContext, t.userInput)])
    IN  [c EXCEPT !.turn = [t EXCEPT !.pc = "generating",
                                     !.request = conversationHistory]]

\* Lines 810-820: the retrieval query is sent when both flags are set.
SendRetrieval(c) == [c EXCEPT !.turn.pc = "retrieving", !.turn.queried = TRUE]

\* Lines 786-820 (or -877 without retrieval): up to the first await.
HandleSendMessageAlwaysRetrieve(c, inputValue, now, enabled, available) ==
    SendRetrieval(Chat(Append(c.messages, Message(now, inputValue, "user", <<>>)), TRUE,
                       Turn(inputValue, now + 1, c.messages, enabled)))

HandleSendMessageBothAtOnce(c, inputValue, now, enabled, available) ==
    LET started == Chat(Append(c.messages, Message(now, inputValue, "user", <<>>)), TRUE,
                        Turn(inputValue, now + 1, c.messages, enabled))
    IN  IF enabled /\ available THEN SendRetrieval(SendGeneration(started))
        ELSE SendGeneration(started)

HandleSendMessage(c, inputValue, now, enabled, available) ==
    LET userMessage == Message(now, inputValue, "user", <<>>)
        started == Chat(Append(c.messages, userMessage), TRUE,
                        Turn(inputValue, now + 1, c.messages, enabled))
    IN  IF enabled /\ available THEN SendRetrieval(started) ELSE SendGeneration(started)

RetrievalSettledEndsWhenEmpty(c, o) ==
    IF o.kind = "ok" /\ Len(o.results) = 0
    THEN [c EXCEPT !.isLoading = FALSE, !.turn.retrieval = o, !.turn.pc = "done"]
    ELSE SendGeneration([c EXCEPT !.turn.retrieval = o,
                                  !.turn.ragContext = RagContext(o.results),
                                  !.turn.sources = Sources(o.results)])

RetrievalSettledThrows(c, o) ==
    IF o.kind # "ok"
    THEN [c EXCEPT !.isLoading = FALSE, !.turn.retrieval = o, !.turn.pc = "done",
                   !.messages = Append(c.messages,
                        Message(c.turn.botMessageId, FallbackText, "bot", <<>>))]
    ELSE SendGeneration([c EXCEPT !.turn.retrieval = o,
                                  !.turn.ragContext = RagContext(o.results),
                                  !.turn.sources = Sources(o.results)])

\* Lines 822-840, then 842-877: the retrieval query has settled.
RetrievalSettled(c, o) ==
    LET found == o.kind = "ok" /\ Len(o.results) > 0
        t == [c.turn EXCEPT
                !.retrieval = o,
                !.ragContext = IF found THEN RagContext(o.results) ELSE <<>>,
                !.sources = IF found THEN Sources(o.results) ELSE <<>>]
    IN  SendGeneration([c EXCEPT !.turn = t])

\* Lines 927-935: the catch block.
Fallback(c) ==
    [c EXCEPT !.isLoading = FALSE,
              !.messages = Append(c.messages,
                    Message(c.turn.botMessageId, FallbackText, "bot", <<>>)),
              !.turn.pc = "done"]

GenerationSettledStaysPending(c, o) ==
    IF o.kind = "ok"
    THEN [c EXCEPT !.turn.pc = "streaming", !.turn.generation = o.kind,
                   !.turn.stream = o.stream]
    ELSE [c EXCEPT !.turn.generation = o.kind, !.turn.pc = "done",
                   !.messages = Append(c.messages,
                        Message(c.turn.botMessageId, FallbackText, "bot", <<>>))]

\* Lines 865-886: the generation request has settled.
GenerationSettled(c, o) ==
    IF o.kind = "ok"
    THEN [c EXCEPT !.turn.pc = "streaming", !.turn.generation = o.kind,
                   !.turn.stream = o.stream]
    ELSE Fallback([c EXCEPT !.turn.generation = o.kind])

\* What the Generation Service writes: one line per increment, a JSON
\* object with a content field (possibly empty or absent: <<>>), or a line
\* that is not JSON.  A read delivers pieces: whole lines, the head of a
\* line whose end comes with a later read, or such a tail.
ContentLine(content) == [parses |-> TRUE, content |-> content]
GarbageLine == [parses |-> FALSE, content |-> <<>>]
Streams ==
    {<<>>,
     <<ContentLine(<<"a">>)>>,
     <<ContentLine(<<"a">>), ContentLine(<<"b">>)>>,
     <<ContentLine(<<>>), ContentLine(<<"a">>)>>,
     <<GarbageLine, ContentLine(<<"b">>)>>}
GenerationOutcomes ==
    {[kind |-> "net", stream |-> <<>>], [kind |-> "http", stream |-> <<>>]}
        \cup {[kind |-> "ok", stream |-> lines] : lines \in Streams}
Whole(line) == [part |-> "whole", line |-> line]
HeadOf(line) == [part |-> "head", line |-> line]
TailOf(line) == [part |-> "tail", line |-> line]

\* JSON.parse(line) and data.content, lines 896-898: a part of a line never
\* parses.
ParsedContent(piece) ==
    IF piece.part = "whole" /\ piece.line.parses THEN piece.line.content ELSE <<>>

SetText(msgs, id, text) ==
    [i \in DOMAIN msgs |-> IF msgs[i].id = id THEN [msgs[i] EXCEPT !.text = text]
                           ELSE msgs[i]]

\* Lines 898-919: one line of a read.
ProcessLine(c, piece) ==
    LET t == c.turn
        content == ParsedContent(piece)
        fullText == t.fullText \o content
    IN  IF content = <<>> THEN c
        ELSE IF ~t.messageCreated
        THEN [c EXCEPT !.isLoading = FALSE,
                       !.messages = Append(c.messages,
                            Message(t.botMessageId, fullText, "bot", t.sources)),
                       !.turn.fullText = fullText,
                       !.turn.messageCreated = TRUE]
        ELSE [c EXCEPT !.messages = SetText(c.messages, t.botMessageId, fullText),
                       !.turn.fullText = fullText]

\* Lines 892-923: one read, the for loop over its lines.
RECURSIVE ProcessChunk(_, _)
ProcessChunk(c, chunk) ==
    IF chunk = <<>> THEN c
    ELSE ProcessChunk(ProcessLine(c, Head(chunk)), Tail(chunk))

\* Line 926: the stream has ended.
StreamDone(c) == [c EXCEPT !.isLoading = FALSE, !.turn.pc = "done"]

\* The panel as mounted, with no conversation started.
ChatClosed ==
    /\ messages = <<Greeting>>
    /\ isLoading = FALSE
    /\ ragEnabled = FALSE
    /\ ragAvailable = FALSE
    /\ turns = <<>>
    /\ clock = Len(messages) + 1

\* ------------------------------------------------------------- sessions
\* Saving the conversation: saveCurrentChat and generateChatName of the
\* Chatbot component, and the session store chatsDatabase of the server
\* with POST /api/chats and DELETE /api/chats/:id.  Where the characters of
\* a text matter it is a sequence of one-character strings.
MaxSaves == 1          \* saveCurrentChat calls in one behaviour
MaxChats == 50         \* chatsDatabase.slice(0, 50)
NameWords == 3         \* .split(' ').slice(0, 3)
NameChars == 25        \* .slice(0, 25)
TitleChars == 30       \* .slice(0, 30)

NewChatName == <<"N", "e", "w", " ", "C", "h", "a", "t">>
Quotes == {"\"", "'"}

Slice(s, n) == SubSeq(s, 1, IF n < Len(s) THEN n ELSE Len(s))

\* String.prototype.trim, for the whitespace that occurs here.
RECURSIVE TrimStart(_)
TrimStart(s) == IF s # <<>> /\ Head(s) = " " THEN TrimStart(Tail(s)) ELSE s
RECURSIVE TrimEnd(_)
TrimEnd(s) ==
    IF s # <<>> /\ s[Len(s)] = " " THEN TrimEnd(SubSeq(s, 1, Len(s) - 1)) ELSE s
Trim(s) == TrimEnd(TrimStart(s))

\* .replace(/^["']|["']$/g, ''): one quote at the start and one at the end.
StripQuotes(s) ==
    LET t == IF s # <<>> /\ Head(s) \in Quotes THEN Tail(s) ELSE s
    IN  IF t # <<>> /\ t[Len(t)] \in Quotes THEN SubSeq(t, 1, Len(t) - 1) ELSE t

\* .split(' '): the pieces between the spaces, empty ones included.
RECURSIVE SplitFrom(_, _)
SplitFrom(s, word) ==
    IF s = <<>> THEN <<word>>
    ELSE IF Head(s) = " " THEN <<word>> \o SplitFrom(Tail(s), <<>>)
    ELSE SplitFrom(Tail(s), Append(word, Head(s)))
Split(s) == SplitFrom(s, <<>>)

UserTexts(msgs) ==
    LET users == SelectSeq(msgs, LAMBDA m : m.sender = "user")
    IN  [i \in DOMAIN users |-> users[i].text]

\* Lines 616-620: the texts of the first two user messages.
ConvSummary(msgs) ==
    LET texts == UserTexts(msgs)
    IN  Join(SubSeq(texts, 1, IF Len(texts) < 2 THEN Len(texts) ELSE 2),
             <<" ", "|", " ">>)

\* Lines 663-665: the title read from the stream, cleaned up.
CleanTitle(title) ==
    LET cleaned == Slice(StripQuotes(Trim(title)), TitleChars)
    IN  IF cleaned # <<>> THEN cleaned ELSE NewChatName

FallbackNameUncut(msgs) ==
    IF UserTexts(msgs) = <<>> THEN NewChatName ELSE UserTexts(msgs)[1]

\* Lines 667-672: the catch block of generateChatName.
FallbackName(msgs) ==
    LET texts == UserTexts(msgs)
        firstMsg == IF texts = <<>> THEN <<>> ELSE texts[1]
        cut == Slice(Join(SubSeq(Split(firstMsg), 1,
                                 IF Len(Split(firstMsg)) < NameWords
                                 THEN Len(Split(firstMsg)) ELSE NameWords),
                          <<" ">>),
                     NameChars)
    IN  IF cut # <<>> THEN cut ELSE NewChatName

\* A stored session, and what POST /api/chats makes of a request body
\* (lines 457-464); uuid and now stand for uuidv4() and new Date().
Session(id, name, msgs, date) ==
    [id |-> id, name |-> name, messages |-> msgs, date |-> date]
Field(body, f, default) == IF f \in DOMAIN body THEN body[f] ELSE default
ChatData(body, uuid, now) ==
    Session(Field(body, "id", uuid),
            IF Field(body, "name", <<>>) # <<>> THEN body.name ELSE NewChatName,
            Field(body, "messages", <<>>),
            Field(body, "date", now))

\* uuidv4(): an identifier no client sends.
Uuid(now) == ToString(0 - now)

ChatIndex(db, id) ==
    IF \E i \in 1..Len(db) : db[i].id = id
    THEN CHOOSE i \in 1..Len(db) : db[i].id = id /\ \A j \in 1..(i - 1) : db[j].id # id
    ELSE 0

SaveChatAlwaysAdds(db, chatData) == Slice(<<chatData>> \o db, MaxChats)

\* Lines 466-475: update the existing session or put the new one in front,
\* then keep the first 50.
SaveChat(db, chatData) ==
    LET existingIndex == ChatIndex(db, chatData.id)
        updated == IF existingIndex > 0 THEN [db EXCEPT ![existingIndex] = chatData]
                   ELSE <<chatData>> \o db
    IN  Slice(updated, MaxChats)

\* Lines 486-497: DELETE /api/chats/:id.
RemoveChat(db, id) ==
    IF ChatIndex(db, id) = 0 THEN db ELSE Splice(db, ChatIndex(db, id))

\* A call of saveCurrentChat: its closure variables and where it stands.
Save(msgs, chatId) ==
    [pc |-> "start", messages |-> msgs, currentChatId |-> chatId,
     stream |-> <<>>, pending |-> FALSE, title |-> <<>>,
     written |-> <<>>, name |-> <<>>, failed |-> FALSE, body |-> NoBody, answer |-> NoBody]

\* Lines 679-691: the name is known; the session is posted.
PostSession(s, name, now) ==
    [s EXCEPT !.pc = "posting",
              !.name = name,
              !.body = Session(IF s.currentChatId # NULL THEN s.currentChatId
                               ELSE ToString(now),
                               name, s.messages, now)]

\* Lines 612-639: generateChatName up to its fetch, or to its early return.
GenerateChatName(s, now) ==
    IF Len(s.messages) <= 1 \/ ConvSummary(s.messages) = <<>>
    THEN PostSession(s, NewChatName, now)
    ELSE [s EXCEPT !.pc = "naming"]

\* Lines 641-646 and 667-672: the naming request has settled.
NameSettled(s, o, now) ==
    IF o.kind = "ok" THEN [s EXCEPT !.pc = "titling", !.stream = o.stream]
    ELSE PostSession([s EXCEPT !.failed = TRUE], FallbackName(s.messages), now)

\* Lines 652-660: one read of the title stream.
RECURSIVE ReadTitle(_, _)
ReadTitle(s, chunk) ==
    IF chunk = <<>> THEN s
    ELSE ReadTitle([s EXCEPT !.title = @ \o ParsedContent(Head(chunk))], Tail(chunk))

\* Lines 650 and 663-665: the title stream has ended.
NameRead(s, now) == PostSession(s, CleanTitle(s.title), now)

\* Lines 667-672: reader.read() rejected.
NameBroken(s, now) ==
    PostSession([s EXCEPT !.failed = TRUE, !.stream = <<>>, !.pending = FALSE],
                FallbackName(s.messages), now)

\* ------------------------------------------------- configuration (pure)
\* Lines 327-338: the built-in configuration.
ConfigDefaults ==
    [defaults |-> [extractor_mode |-> "text", chunker_mode |-> "agentic",
                   merge_window |-> 3],
     options |-> [extractor_modes |-> <<"text", "vision">>,
                  chunker_modes |-> <<"semantic", "agentic">>,
                  merge_window_range |-> <<0, 5>>]]

\* A configuration the Retrieval Service gives.
LiveConfig ==
    [defaults |-> [extractor_mode |-> "vision", chunker_mode |-> "semantic",
                   merge_window |-> 2],
     options |-> [extractor_modes |-> <<"text", "vision">>,
                  chunker_modes |-> <<"semantic", "agentic">>,
                  merge_window_range |-> <<0, 10>>]]

\* What fetch(`${RAG_SERVICE_URL}/config`) and response.json() can come
\* to: no connection, a status outside 2xx, a 2xx whose body is no JSON,
\* and a 2xx with a JSON body, which may be a configuration or not.
Unreachable == [kind |-> "net", body |-> NoBody]
Refusing == [kind |-> "http", body |-> [detail |-> "Internal Server Error"]]
Garbled == [kind |-> "text", body |-> NoBody]
Answering(body) == [kind |-> "json", body |-> body]
ServiceStates ==
    {Unreachable, Refusing, Garbled,
     Answering(LiveConfig), Answering(ConfigDefaults), Answering([detail |-> "loading"])}

\* Lines 319-339: the body res.json is called with.
GetConfigReply(service) ==
    IF service.kind = "json" THEN service.body ELSE ConfigDefaults

\* The panel's sessions as mounted.
SessionsClosed ==
    /\ chatsDatabase = <<>>
    /\ saves = <<>>
    /\ currentChatId = NULL

\* ------------------------------------------------------------- actions
Init ==
    /\ ChatClosed
    /\ SessionsClosed
    /\ pdfsDatabase = <<>>
    /\ disk = <<>>
    /\ nextId = 0
    /\ nextTask = 0
    /\ ragService = Unreachable
    /\ tasks = EmptyBag
    /\ overlapped = {}
    /\ succeeded = {}
    /\ last = Label("init", <<>>, "new", NoResp)

\* The store as loaded from database.json at start, holding records that
\* earlier runs of the server left in a final status.
LoadedRecords(id) ==
    {[NewRecord(id) EXCEPT !.ragStatus = "success", !.chunksCount = MaxChunks]}
    \cup {[NewRecord(id) EXCEPT !.ragStatus = "failed", !.ragError = e] :
                e \in NetErrors}

LoadedStores ==
    {db \in UNION {[1..n -> UNION {LoadedRecords(id) : id \in Ids}] : n \in 0..MaxDocs} :
        \A k \in DOMAIN db : db[k].id = k}

InitLoaded ==
    \E db \in LoadedStores :
        /\ ChatClosed
        /\ SessionsClosed
        /\ pdfsDatabase = db
        /\ disk = db
        /\ nextId = Len(db)
        /\ nextTask = 0
        /\ ragService = Unreachable
        /\ tasks = EmptyBag
        /\ overlapped = {}
        /\ succeeded = {id \in Ids : InStore(db, id) /\ Rec(db, id).ragStatus = "success"}
        /\ last = Label("init", <<>>, "new", NoResp)

\* POST /api/upload with n files (none: 400, nothing happens) and a
\* processingOptions field parsed to one of inputs; budget bounds the
\* number of requests.
UploadWith(inputs, budget) ==
    \E n \in 1..MaxBatch, parsed \in inputs :
        /\ nextId + n <= MaxDocs
        /\ nextTask < budget
        /\ LET ids == [k \in 1..n |-> nextId + k] IN
           /\ Commit(UploadRun(Machine, ids, parsed), {},
                     Label("upload", ids, "new", NoResp))
           /\ nextId' = nextId + n
        /\ nextTask' = nextTask + 1
        /\ UNCHANGED overlapped

\* An upload without a processingOptions field.
Upload == UploadWith({EmptyOptions}, MaxOps)

\* POST /api/rag/reprocess/:id (unknown id: 404, nothing happens) with
\* processingOptions one of inputs.
ReprocessWith(inputs, budget) ==
    \E id \in Ids, opts \in inputs :
        /\ InStore(pdfsDatabase, id)
        /\ nextTask < budget
        /\ Commit(ReprocessRequest(Machine, id, opts),
                  {}, Label("reprocess", <<id>>, Rec(pdfsDatabase, id).ragStatus, NoResp))
        /\ overlapped' = IF Busy(id) THEN overlapped \cup {id} ELSE overlapped
        /\ nextTask' = nextTask + 1
        /\ UNCHANGED nextId

\* A reprocess with no options, or with rechunkOnly alone.
Reprocess == ReprocessWith({EmptyOptions, RechunkOnlyOptions}, MaxOps)

\* The same requests carrying any of the settings.
UploadWithOptions ==
    UploadWith({o \in OptionInputs : ~o.rechunkOnly}, MaxOptionOps)

ReprocessWithOptions == ReprocessWith(OptionInputs, MaxOptionOps)

\* The delete-index fetch of a reprocess request has settled.
ReprocessContinue ==
    \E t \in Tasks, r \in DeleteIndexResps :
        /\ t.kind = "reprocessDel"
        /\ Commit(ReprocessResume(Machine, t, r), {t},
                  Label("reprocessResume", t.ids, t.from, r))
        /\ UNCHANGED <<nextId, nextTask, overlapped>>

\* The fetch of processPdfWithRag has settled.
SingleDone ==
    \E t \in Tasks, r \in SingleResps :
        /\ t.kind = "single"
        /\ Commit(ProcessPdfWithRagDone(Machine, t.ids[1], r), {t},
                  Label("singleDone", t.ids, t.from, r))
        /\ UNCHANGED <<nextId, nextTask, overlapped>>

\* The fetch of rechunkPdf has settled.
RechunkDone ==
    \E t \in Tasks, r \in SingleResps :
        /\ t.kind = "rechunk"
        /\ Commit(RechunkPdfDone(Machine, t.ids[1], r), {t},
                  Label("rechunkDone", t.ids, t.from, r))
        /\ UNCHANGED <<nextId, nextTask, overlapped>>

\* The fetch of processPdfsWithRagBatch has settled.
BatchDone ==
    \E t \in Tasks :
        /\ t.kind = "batch"
        /\ \E r \in BatchResps(t.ids) :
            Commit(ProcessPdfsWithRagBatchDone(Machine, t.ids, r), {t},
                   Label("batchDone", t.ids, t.from, r))
        /\ UNCHANGED <<nextId, nextTask, overlapped>>

\* DELETE /api/pdfs/:id up to its await, for a record in the store.
DeleteWith(budget) ==
    \E id \in Ids :
        /\ InStore(pdfsDatabase, id)
        /\ nextTask < budget
        /\ Commit(DeleteRequest(Machine, id),
                  {}, Label("delete", <<id>>, Rec(pdfsDatabase, id).ragStatus, NoResp))
        /\ nextTask' = nextTask + 1
        /\ UNCHANGED <<nextId, overlapped>>

Delete == DeleteWith(MaxOps)

DeleteDone ==
    \E t \in Tasks, r \in DeleteIndexResps :
        /\ t.kind = "delete"
        /\ Commit(DeleteResume(Machine, t, r), {t},
                  Label("deleteDone", t.ids, t.from, r))
        /\ UNCHANGED <<nextId, nextTask, overlapped>>

\* DELETE /api/pdfs up to its await.
DeleteAll ==
    /\ nextTask < MaxOps
    /\ Commit(Fetch(Machine, "new", "deleteAll", <<>>, 0, EmptyOptions, NoBody, FALSE),
              {}, Label("deleteAll", <<>>, "new", NoResp))
    /\ nextTask' = nextTask + 1
    /\ UNCHANGED <<nextId, overlapped>>

DeleteAllDone ==
    \E t \in Tasks, r \in DeleteIndexResps :
        /\ t.kind = "deleteAll"
        /\ Commit(DeleteAllResume(Machine, r), {t},
                  Label("deleteAllDone", t.ids, t.from, r))
        /\ UNCHANGED <<nextId, nextTask, overlapped>>

Next ==
    \/ Upload
    \/ Reprocess
    \/ ReprocessContinue
    \/ SingleDone
    \/ RechunkDone
    \/ BatchDone
    \/ Delete
    \/ DeleteDone
    \/ DeleteAll
    \/ DeleteAllDone

Spec == Init /\ [][Next]_vars

\* Requests that carry processing options, against a loaded store.
NextOptions ==
    \/ UploadWithOptions
    \/ ReprocessWithOptions
    \/ ReprocessContinue
    \/ SingleDone
    \/ RechunkDone
    \/ BatchDone

SpecOptions == InitLoaded /\ [][NextOptions]_vars

\* Every request, against a store that is new or holds two records
\* ingested by an earlier run.
InitRemoval ==
    \E db \in {d \in LoadedStores :
                 /\ Len(d) \in {0, 2}
                 /\ \A k \in DOMAIN d : d[k].ragStatus = "success"} :
        /\ ChatClosed
        /\ SessionsClosed
        /\ pdfsDatabase = db
        /\ disk = db
        /\ nextId = Len(db)
        /\ nextTask = 0
        /\ ragService = Unreachable
        /\ tasks = EmptyBag
        /\ overlapped = {}
        /\ succeeded = {id \in Ids : InStore(db, id)}
        /\ last = Label("init", <<>>, "new", NoResp)

SpecRemoval == InitRemoval /\ [][Next]_vars

\* Delete requests against a loaded store.
NextDelete ==
    \/ Delete
    \/ DeleteDone
    \/ DeleteAll
    \/ DeleteAllDone

SpecDelete == InitLoaded /\ [][NextDelete]_vars

\* What callers put into the tags of a tag update.
TagInputs == {<<>>, <<"law">>}

TagsResps == DeleteIndexResps

\* Requests that name a record, in the store or not.
ReprocessById == ReprocessWith({EmptyOptions, RechunkOnlyOptions}, MaxByIdOps)

DeleteById == DeleteWith(MaxByIdOps)

TagsUpdate ==
    \E id \in Ids, tags \in TagInputs :
        /\ InStore(pdfsDatabase, id)
        /\ nextTask < MaxByIdOps
        /\ Commit(TagsRequest(Machine, id, tags),
                  {}, Label("tags", <<id>>, Rec(pdfsDatabase, id).ragStatus, NoResp))
        /\ nextTask' = nextTask + 1
        /\ UNCHANGED <<nextId, overlapped>>

TagsDone ==
    \E t \in Tasks, r \in TagsResps :
        /\ t.kind = "tags"
        /\ Commit(TagsResume(Machine, t, r), {t}, Label("tagsDone", t.ids, t.from, r))
        /\ UNCHANGED <<nextId, nextTask, overlapped>>

ReprocessUnknown ==
    \E id \in Ids, opts \in {EmptyOptions, RechunkOnlyOptions} :
        /\ ~InStore(pdfsDatabase, id)
        /\ nextTask < MaxByIdOps
        /\ Commit(ReprocessRequest(Machine, id, opts),
                  {}, Label("reprocessUnknown", <<id>>, "absent", NoResp))
        /\ nextTask' = nextTask + 1
        /\ UNCHANGED <<nextId, overlapped>>

TagsUnknown ==
    \E id \in Ids, tags \in TagInputs :
        /\ ~InStore(pdfsDatabase, id)
        /\ nextTask < MaxByIdOps
        /\ Commit(TagsRequest(Machine, id, tags),
                  {}, Label("tagsUnknown", <<id>>, "absent", NoResp))
        /\ nextTask' = nextTask + 1
        /\ UNCHANGED <<nextId, overlapped>>

DeleteUnknown ==
    \E id \in Ids :
        /\ ~InStore(pdfsDatabase, id)
        /\ nextTask < MaxByIdOps
        /\ Commit(DeleteRequest(Machine, id),
                  {}, Label("deleteUnknown", <<id>>, "absent", NoResp))
        /\ nextTask' = nextTask + 1
        /\ UNCHANGED <<nextId, overlapped>>

NextById ==
    \/ ReprocessById
    \/ ReprocessUnknown
    \/ ReprocessContinue
    \/ SingleDone
    \/ RechunkDone
    \/ TagsUpdate
    \/ TagsUnknown
    \/ TagsDone
    \/ DeleteById
    \/ DeleteUnknown
    \/ DeleteDone

SpecById == InitLoaded /\ [][NextById]_vars

\* ------------------------------------------------------- Chatbot actions
\* A saved session, as loadChat shows it: the turns of an earlier
\* conversation.
SavedTranscripts ==
    {<<Greeting>>,
     <<Greeting, Message(2, <<"q0">>, "user", <<>>),
                 Message(3, <<"a0">>, "bot", Sources(<<HitA>>))>>}

\* Date.now() when the panel is mounted: later than every saved message.
SavedIds == UNION {{chat[i].id : i \in DOMAIN chat} : chat \in SavedTranscripts}
Mounted == 1 + CHOOSE n \in SavedIds : \A m \in SavedIds : m <= n

\* The identifier a saved session got: Date.now().toString() at its
\* first save.
SavedId(chat) == ToString(chat[Len(chat)].id)

ChatLabel(op, k) == [op |-> op, turn |-> k]

InitChat ==
    /\ pdfsDatabase = <<>>
    /\ disk = <<>>
    /\ nextId = 0
    /\ nextTask = 0
    /\ ragService = Unreachable
    /\ tasks = EmptyBag
    /\ overlapped = {}
    /\ succeeded = {}
    /\ last = ChatLabel("init", 0)
    /\ messages \in SavedTranscripts
    /\ isLoading = FALSE
    /\ ragEnabled = FALSE
    /\ ragAvailable = FALSE
    /\ turns = <<>>
    /\ clock = Mounted
    /\ SessionsClosed

\* setMessages(...) that replaces the transcript: loadChat(chat), and
\* clearChat() as newChat and deleteChat call it.  No running
\* handleSendMessage call is told.
ReplaceTranscript(msgs, chatId, op) ==
    /\ messages' = msgs
    /\ currentChatId' = chatId
    /\ turns' = [k \in DOMAIN turns |->
                    IF turns[k].pc = "done" THEN turns[k]
                    ELSE [turns[k] EXCEPT !.left = TRUE]]
    /\ last' = ChatLabel(op, 0)
    /\ UNCHANGED <<libVars, chatsDatabase, saves, ragService, isLoading, ragEnabled,
                   ragAvailable, clock>>

LoadChat ==
    \E chat \in SavedTranscripts :
        /\ Len(chat) > 1
        /\ chat # messages
        /\ ReplaceTranscript(chat, SavedId(chat), "load")

ClearChat ==
    /\ messages # <<Greeting>>
    /\ ReplaceTranscript(<<Greeting>>, NULL, "clear")

\* The state a run of turn k starts from, and the end of the run.
ChatOf(k) == Chat(messages, isLoading, turns[k])
ChatCommit(c, k, op) ==
    /\ messages' = c.messages
    /\ isLoading' = c.isLoading
    /\ turns' = [i \in 1..(IF k > Len(turns) THEN k ELSE Len(turns)) |->
                    IF i = k THEN c.turn ELSE turns[i]]
    /\ last' = ChatLabel(op, k)
    /\ UNCHANGED <<libVars, sessionVars, ragService, ragEnabled, ragAvailable>>

\* checkRagStatus has settled: data.available, or false on an error.
CheckRagStatus ==
    /\ ragAvailable' = ~ragAvailable
    /\ UNCHANGED <<libVars, sessionVars, ragService, last, messages, isLoading, ragEnabled, turns, clock>>

\* The RAG toggle: ragAvailable && setRagEnabled(!ragEnabled).
ToggleRag ==
    /\ ragAvailable
    /\ ragEnabled' = ~ragEnabled
    /\ UNCHANGED <<libVars, sessionVars, ragService, last, messages, isLoading, ragAvailable, turns, clock>>

\* The form is submitted; the input and the button are disabled while
\* isLoading, and an empty input returns at once.
SendWith(budget) ==
    /\ ~isLoading
    /\ Len(turns) < budget
    /\ \E inputValue \in Inputs :
          ChatCommit(HandleSendMessage(Chat(messages, isLoading, <<>>), inputValue,
                                       clock, ragEnabled, ragAvailable),
                     Len(turns) + 1, "send")
    /\ clock' = clock + 2

SendMessage == SendWith(MaxTurns)

RetrievalDone ==
    \E k \in DOMAIN turns, o \in RetrievalOutcomes :
        /\ turns[k].pc = "retrieving"
        /\ ChatCommit(RetrievalSettled(ChatOf(k), o), k, "retrieved")
        /\ UNCHANGED clock

GenerationDoneWith(outcomes) ==
    \E k \in DOMAIN turns, o \in outcomes :
        /\ turns[k].pc = "generating"
        /\ ChatCommit(GenerationSettled(ChatOf(k), o), k, "answered")
        /\ UNCHANGED clock

GenerationDone == GenerationDoneWith(GenerationOutcomes)

\* The reads the transport can deliver next: one or two pieces of what the
\* service has still to write, starting with the rest of a line whose head
\* came with the read before.
Pieces(line) == {Whole(line), HeadOf(line)}
Reads(t) ==
    LET firsts == IF t.stream = <<>> THEN {}
                  ELSE IF t.pending THEN {TailOf(t.stream[1])}
                  ELSE Pieces(t.stream[1])
        seconds(p) == IF p.part # "head" /\ Len(t.stream) > 1
                      THEN Pieces(t.stream[2]) ELSE {}
    IN  {<<p>> : p \in firsts}
            \cup UNION {{<<p, q>> : q \in seconds(p)} : p \in firsts}

\* What the service has written in full once the read is delivered.
RECURSIVE Delivered(_, _)
Delivered(t, chunk) ==
    IF chunk = <<>> THEN t
    ELSE LET p == Head(chunk)
             u == IF p.part = "head" THEN [t EXCEPT !.pending = TRUE]
                  ELSE [t EXCEPT !.written = @ \o (IF p.line.parses THEN p.line.content
                                                    ELSE <<>>),
                                 !.stream = Tail(@),
                                 !.pending = FALSE]
         IN  Delivered(u, Tail(chunk))

\* reader.read() resolves with a value.
ReadChunk ==
    \E k \in DOMAIN turns :
        /\ turns[k].pc = "streaming"
        /\ \E chunk \in Reads(turns[k]) :
              ChatCommit(ProcessChunk(Chat(messages, isLoading, Delivered(turns[k], chunk)),
                                      chunk), k, "read")
        /\ UNCHANGED clock

\* reader.read() resolves with done.
StreamEnd ==
    \E k \in DOMAIN turns :
        /\ turns[k].pc = "streaming"
        /\ turns[k].stream = <<>>
        /\ ChatCommit(StreamDone(ChatOf(k)), k, "end")
        /\ UNCHANGED clock

\* reader.read() rejects: the connection broke, and what the service had
\* still to write is lost.
StreamBreak ==
    \E k \in DOMAIN turns :
        /\ turns[k].pc = "streaming"
        /\ ChatCommit(Fallback(Chat(messages, isLoading,
                            [turns[k] EXCEPT !.stream = <<>>, !.pending = FALSE])),
                      k, "broken")
        /\ UNCHANGED clock

NextChat ==
    \/ CheckRagStatus
    \/ ToggleRag
    \/ SendMessage
    \/ RetrievalDone
    \/ GenerationDone
    \/ ReadChunk
    \/ StreamEnd
    \/ StreamBreak

SpecChat == InitChat /\ [][NextChat]_vars

\* Several turns in one conversation, without retrieval: the input is
\* enabled again as soon as isLoading is false, which is at the first
\* increment of the answer, so a turn can be sent while the answer of the
\* turn before is still being read.
SendAgain == SendWith(MaxSends)
OverlapOutcomes ==
    {[kind |-> "http", stream |-> <<>>],
     [kind |-> "ok", stream |-> <<ContentLine(<<"a">>), ContentLine(<<"b">>)>>]}
GenerationAnswered == GenerationDoneWith(OverlapOutcomes)

NextOverlap ==
    \/ LoadChat
    \/ ClearChat
    \/ SendAgain
    \/ GenerationAnswered
    \/ ReadChunk
    \/ StreamEnd
    \/ StreamBreak

SpecOverlap == InitChat /\ [][NextOverlap]_vars

\* ------------------------------------------------------ session actions
\* The conversations that are saved: one with a question of four words,
\* one whose question starts with spaces, one with a long word, and one
\* without a user message (an answer relayed into a cleared chat).
Chars(c, n) == [i \in 1..n |-> c]
SessionTranscripts ==
    {<<Greeting, Message(2, <<"a", " ", "b", " ", "c", " ", "d">>, "user", <<>>),
                 Message(3, <<"x">>, "bot", <<>>)>>,
     <<Greeting, Message(2, <<" ", " ", " ", "a">>, "user", <<>>)>>,
     <<Greeting, Message(2, Chars("w", NameChars + 1), "user", <<>>)>>,
     <<Greeting, Message(3, <<"x">>, "bot", <<>>)>>}

\* What the Generation Service writes as a title.
TitleStreams ==
    {<<>>,
     <<ContentLine(<<"\"", "L">>), ContentLine(<<"a", "w", "\"", " ">>)>>,
     <<ContentLine(<<"\"", " ", "\"">>)>>,
     <<ContentLine(Chars("t", TitleChars + 1))>>}
NameOutcomes ==
    {[kind |-> "net", stream |-> <<>>], [kind |-> "http", stream |-> <<>>]}
        \cup {[kind |-> "ok", stream |-> lines] : lines \in TitleStreams}

InitSaving ==
    /\ pdfsDatabase = <<>>
    /\ disk = <<>>
    /\ nextId = 0
    /\ nextTask = 0
    /\ ragService = Unreachable
    /\ tasks = EmptyBag
    /\ overlapped = {}
    /\ succeeded = {}
    /\ last = ChatLabel("init", 0)
    /\ messages \in SessionTranscripts
    /\ isLoading = FALSE
    /\ ragEnabled = FALSE
    /\ ragAvailable = FALSE
    /\ turns = <<>>
    /\ clock = Mounted
    /\ SessionsClosed

\* The end of a run of save k; posts is the store after it.
SaveCommit(s, k, op, db, chatId) ==
    /\ saves' = [i \in 1..(IF k > Len(saves) THEN k ELSE Len(saves)) |->
                    IF i = k THEN s ELSE saves[i]]
    /\ chatsDatabase' = db
    /\ currentChatId' = chatId
    /\ clock' = IF s.pc = "posting" THEN clock + 1 ELSE clock
    /\ last' = ChatLabel(op, k)
    /\ UNCHANGED <<libVars, ragService, messages, isLoading, ragEnabled, ragAvailable, turns>>

\* The save button: saveCurrentChat, which returns at once for a chat that
\* holds the greeting only.
SaveCurrentChat ==
    /\ Len(saves) < MaxSaves
    /\ Len(messages) > 1
    /\ SaveCommit(GenerateChatName(Save(messages, currentChatId), clock),
                  Len(saves) + 1, "save", chatsDatabase, currentChatId)

NameAnswered ==
    \E k \in DOMAIN saves, o \in NameOutcomes :
        /\ saves[k].pc = "naming"
        /\ SaveCommit(NameSettled(saves[k], o, clock), k, "nameAnswered",
                      chatsDatabase, currentChatId)

TitleRead ==
    \E k \in DOMAIN saves :
        /\ saves[k].pc = "titling"
        /\ \E chunk \in Reads(saves[k]) :
              SaveCommit(ReadTitle(Delivered(saves[k], chunk), chunk), k, "titleRead",
                         chatsDatabase, currentChatId)

TitleEnd ==
    \E k \in DOMAIN saves :
        /\ saves[k].pc = "titling"
        /\ saves[k].stream = <<>>
        /\ SaveCommit(NameRead(saves[k], clock), k, "titleEnd",
                      chatsDatabase, currentChatId)

TitleBreak ==
    \E k \in DOMAIN saves :
        /\ saves[k].pc = "titling"
        /\ SaveCommit(NameBroken(saves[k], clock), k, "titleBroken",
                      chatsDatabase, currentChatId)

\* POST /api/chats handles the request of save k and answers 201.
PostChat ==
    \E k \in DOMAIN saves :
        /\ saves[k].pc = "posting"
        /\ \E chatData \in {ChatData(saves[k].body, Uuid(clock), clock)} :
              SaveCommit([saves[k] EXCEPT !.pc = "posted", !.answer = chatData],
                         k, "post", SaveChat(chatsDatabase, chatData), currentChatId)

\* The POST never reached the server: the catch at lines 698-700.
PostFailed ==
    \E k \in DOMAIN saves :
        /\ saves[k].pc = "posting"
        /\ SaveCommit([saves[k] EXCEPT !.pc = "done"], k, "postFailed",
                      chatsDatabase, currentChatId)

\* Lines 693-697: the 201 answer has arrived.
SaveDone ==
    \E k \in DOMAIN saves :
        /\ saves[k].pc = "posted"
        /\ SaveCommit([saves[k] EXCEPT !.pc = "done"], k, "saved",
                      chatsDatabase, saves[k].answer.id)

NextSaving ==
    \/ SaveCurrentChat
    \/ NameAnswered
    \/ TitleRead
    \/ TitleEnd
    \/ TitleBreak
    \/ PostChat
    \/ PostFailed
    \/ SaveDone

SpecSaving == InitSaving /\ [][NextSaving]_vars

\* -------------------------------------------------------- session store
\* The session store under the requests of any client, starting from a
\* store that is empty, full or one short of full, as saves of new sessions
\* leave it: the newest in front.
MaxPosts == 2          \* requests to /api/chats in one behaviour

StoredSession(n) == Session(ToString(n), NewChatName, <<Greeting>>, n)
FilledStore(n) == [i \in 1..n |-> StoredSession(n - i + 1)]

\* The bodies posted: by saveCurrentChat for an old, a recent and a new
\* session, and by a client that leaves the identifier and the name out.
PostBodies(now) ==
    {Session(id, <<"L", "a", "w">>, <<Greeting, Message(2, <<"q">>, "user", <<>>)>>, now) :
        id \in {ToString(1), ToString(MaxChats - 1), ToString(now)}}
    \cup {[messages |-> <<Greeting>>, date |-> now]}
DeleteIds == {ToString(1), ToString(MaxChats), ToString(0)}

InitStore ==
    /\ pdfsDatabase = <<>>
    /\ disk = <<>>
    /\ nextId = 0
    /\ nextTask = 0
    /\ ragService = Unreachable
    /\ tasks = EmptyBag
    /\ overlapped = {}
    /\ succeeded = {}
    /\ ChatClosed
    /\ saves = <<>>
    /\ currentChatId = NULL
    /\ chatsDatabase \in {FilledStore(0), FilledStore(MaxChats - 1), FilledStore(MaxChats)}
    /\ last = [op |-> "init", chat |-> StoredSession(0), reply |-> NoReply]

StoreCommit(db, op, chatData, code) ==
    /\ chatsDatabase' = db
    /\ nextTask' = nextTask + 1
    /\ last' = [op |-> op, chat |-> chatData, reply |-> code]
    /\ UNCHANGED <<pdfsDatabase, disk, nextId, tasks, overlapped, succeeded,
                   chatVars, saves, currentChatId, ragService>>

\* POST /api/chats.
PostAnyChat ==
    /\ nextTask < MaxPosts
    /\ \E body \in PostBodies(MaxChats + 1 + nextTask) :
          \E chatData \in {ChatData(body, Uuid(MaxChats + 1 + nextTask),
                                     MaxChats + 1 + nextTask)} :
              StoreCommit(SaveChat(chatsDatabase, chatData), "postChat", chatData, Created)

\* DELETE /api/chats/:id.
DeleteAnyChat ==
    /\ nextTask < MaxPosts
    /\ \E id \in DeleteIds :
          /\ ChatIndex(chatsDatabase, id) > 0
          /\ StoreCommit(RemoveChat(chatsDatabase, id), "deleteChat",
                         chatsDatabase[ChatIndex(chatsDatabase, id)], Ok)

DeleteUnknownChat ==
    /\ nextTask < MaxPosts
    /\ \E id \in DeleteIds :
          /\ ChatIndex(chatsDatabase, id) = 0
          /\ StoreCommit(chatsDatabase, "deleteUnknownChat", StoredSession(0), NotFound)

NextStore ==
    \/ PostAnyChat
    \/ DeleteAnyChat
    \/ DeleteUnknownChat

SpecStore == InitStore /\ [][NextStore]_vars

\* -------------------------------------------------------- configuration
\* GET /api/rag/config, called while the Retrieval Service comes and goes.
MaxConfigCalls == 2    \* GET /api/rag/config requests in one behaviour

ConfigTask == [kind |-> "config", ids |-> <<>>]

InitConfig ==
    \E db \in LoadedStores :
        /\ ChatClosed
        /\ SessionsClosed
        /\ pdfsDatabase = db
        /\ disk = db
        /\ nextId = Len(db)
        /\ nextTask = 0
        /\ tasks = EmptyBag
        /\ overlapped = {}
        /\ succeeded = {id \in Ids : InStore(db, id) /\ Rec(db, id).ragStatus = "success"}
        /\ ragService \in ServiceStates
        /\ last = [op |-> "init", service |-> Unreachable, config |-> ConfigDefaults]

\* Line 319: the handler starts the fetch and waits.
GetConfig ==
    /\ nextTask < MaxConfigCalls
    /\ nextTask' = nextTask + 1
    /\ tasks' = tasks (+) SetToBag({ConfigTask})
    /\ UNCHANGED <<pdfsDatabase, disk, nextId, overlapped, succeeded, last,
                   chatVars, sessionVars, ragService>>

ConfigSettledWarmsUp ==
    /\ ConfigTask \in Tasks
    /\ tasks' = tasks (-) SetToBag({ConfigTask})
    /\ last' = [op |-> "getConfig", service |-> ragService,
                config |-> IF last.op = "getConfig"
                           THEN GetConfigReply(ragService) ELSE ConfigDefaults]
    /\ UNCHANGED <<pdfsDatabase, disk, nextId, nextTask, overlapped, succeeded,
                   chatVars, sessionVars, ragService>>

\* Lines 320-339: the fetch settles with what the service is now, and the
\* handler answers.
ConfigSettled ==
    /\ ConfigTask \in Tasks
    /\ tasks' = tasks (-) SetToBag({ConfigTask})
    /\ last' = [op |-> "getConfig", service |-> ragService,
                config |-> GetConfigReply(ragService)]
    /\ UNCHANGED <<pdfsDatabase, disk, nextId, nextTask, overlapped, succeeded,
                   chatVars, sessionVars, ragService>>

\* The Retrieval Service starts, stops, fails or is reconfigured.
ServiceChanges ==
    /\ \E service \in ServiceStates \ {ragService} : ragService' = service
    /\ last' = [op |-> "service", service |-> ragService', config |-> ConfigDefaults]
    /\ UNCHANGED <<libVars, chatVars, sessionVars>>

NextConfig ==
    \/ GetConfig
    \/ ConfigSettled
    \/ ServiceChanges

SpecConfig == InitConfig /\ [][NextConfig]_vars

\* ------------------------------------------------------------- shape
Statuses == {"processing", "success", "failed"}
Terminal == {"success", "failed"}
Present == {pdfsDatabase[i].id : i \in 1..Len(pdfsDatabase)}
Status(id) == Rec(pdfsDatabase, id).ragStatus
Error(id) == Rec(pdfsDatabase, id).ragError
Chunks(id) == Rec(pdfsDatabase, id).chunksCount
Completions == {"singleDone", "rechunkDone", "batchDone"}

TypeOK ==
    /\ nextId \in 0..MaxDocs
    /\ nextTask \in 0..MaxOps
    /\ disk = pdfsDatabase
    /\ \A i, j \in 1..Len(pdfsDatabase) :
        pdfsDatabase[i].id = pdfsDatabase[j].id => i = j
    /\ Present \subseteq 1..nextId

\* ------------------------------------------------------------- claims

\* C1: every processing request in flight that an upload or a reprocess
\* caused (the delete-index request of a reprocess, the extract, batch or
\* rechunk request) left after the handler had set the records it concerns
\* to processing and saved the store.
C1_PersistedBeforeRequest ==
    \A t \in Tasks : t.kind \in Ingesting => t.persisted

C1_Witness ==
    \E t, u \in Tasks :
        /\ t.kind = "batch" /\ t.persisted
        /\ u.kind \in {"single", "rechunk"} /\ u.from # "new" /\ u.persisted

\* The change of status of id in a step is one the lifecycle allows.
AllowedChange(id) ==
    \/ Status(id) = "processing" /\ Status(id)' \in Terminal
    \/ /\ Status(id) \in Terminal /\ Status(id)' = "processing"
       /\ last'.op = "reprocess" /\ last'.ids = <<id>>

\* C2 as stated: in every execution each change of a record's status is
\* processing->success, processing->failed, or terminal->processing by a
\* reprocess request.
C2_Original ==
    [][\A id \in Present \cap Present' :
          Status(id)' # Status(id) => AllowedChange(id)]_vars

\* C2 amended: the same for every record for which no reprocess request was
\* accepted while another ingestion operation for it was in flight.
C2_TransitionsWithoutOverlap ==
    [][pdfsDatabase' # pdfsDatabase =>
        \A id \in (Present \cap Present') \ overlapped' :
          Status(id)' # Status(id) => AllowedChange(id)]_vars

C2_Witness ==
    /\ last.op = "reprocess"
    /\ last.from \in Terminal
    /\ last.ids[1] \in Present \ overlapped
    /\ Status(last.ids[1]) = "processing"

\* C3 (the part about batches): in the state a finished batch task leaves,
\* no record of the batch that is in the store and has no other ingestion
\* operation in flight is still processing.
C3_BatchLeavesNoneProcessing ==
    last.op = "batchDone" =>
        \A id \in Range(last.ids) \cap Present :
            ~Busy(id) => Status(id) # "processing"

\* C4: the state a successful single-item call leaves shows the whole
\* update of its record: success, no error, the returned chunk count.
C4_SingleSuccessWhole ==
    (/\ last.op = "singleDone"
     /\ last.resp.st = "ok"
     /\ last.ids[1] \in Present) =>
        /\ Status(last.ids[1]) = "success"
        /\ Error(last.ids[1]) = NULL
        /\ Chunks(last.ids[1]) = last.resp.chunks

C4_Witness ==
    /\ last.op = "singleDone"
    /\ last.resp.st = "ok"
    /\ last.resp.chunks > 0
    /\ last.from = "new"
    /\ last.ids[1] \in Present
    /\ Status(last.ids[1]) = "success"
    /\ Chunks(last.ids[1]) = last.resp.chunks

\* The failure a completion step reports for id, NULL when it reports none.
FailureFor(lbl, id) ==
    IF lbl.op \in {"singleDone", "rechunkDone"} /\ lbl.ids = <<id>>
       /\ lbl.resp.st # "ok"
    THEN SingleMessage(lbl.resp)
    ELSE IF lbl.op = "batchDone" /\ id \in Range(lbl.ids) /\ lbl.resp.st # "ok"
    THEN BatchMessage(lbl.resp)
    ELSE IF lbl.op = "batchDone" /\ lbl.resp.st = "ok"
            /\ id \in DOMAIN lbl.resp.results
            /\ ~lbl.resp.results[id].success
    THEN lbl.resp.results[id].error
    ELSE NULL

\* C5: a step that applies a failure to a record in the store leaves it
\* failed with the failure's message, and its chunk count as it was.
C5_FailureKeepsChunkCount ==
    [][\A id \in Range(last'.ids) \cap Present' :
          FailureFor(last', id) # NULL =>
              /\ Status(id)' = "failed"
              /\ Error(id)' = FailureFor(last', id)
              /\ id \in Present
              /\ Chunks(id)' = Chunks(id)]_vars

C5_Witness ==
    /\ last.op \in Completions
    /\ \E id \in Present :
        /\ FailureFor(last, id) # NULL
        /\ Status(id) = "failed"
        /\ Chunks(id) > 0

\* C6 as stated: every status is one of the three, a failed record has no
\* chunk count, a success record no error, a processing record neither.
C6_Original ==
    \A id \in Present :
        /\ Status(id) \in Statuses
        /\ Status(id) = "failed" => Chunks(id) = 0
        /\ Status(id) = "success" => Error(id) = NULL
        /\ Status(id) = "processing" => Error(id) = NULL /\ Chunks(id) = 0

\* C6 amended: every status is one of the three, a success record and a
\* processing record have no error, and a record that has never been marked
\* success has no chunk count; a processing or failed record may carry the
\* chunk count an earlier success left.
C6_StatusAndLeftoverCount ==
    \A id \in Present :
        /\ Status(id) \in Statuses
        /\ Status(id) = "success" => Error(id) = NULL
        /\ Status(id) = "processing" => Error(id) = NULL
        /\ id \notin succeeded => Chunks(id) = 0
        /\ Chunks(id) \in ChunkCounts

C6_Witness ==
    \E id \in Present \cap succeeded :
        /\ Status(id) = "failed"
        /\ Error(id) # NULL
        /\ Chunks(id) > 0

\* C7: a record has an error only while it is failed.
C7_ErrorOnlyWhenFailed ==
    \A i \in 1..Len(pdfsDatabase) :
        pdfsDatabase[i].ragError # NULL => pdfsDatabase[i].ragStatus = "failed"

C7_Witness ==
    /\ last.op = "reprocess"
    /\ last.from = "failed"
    /\ last.ids[1] \in Present
    /\ Status(last.ids[1]) = "processing"
    /\ Error(last.ids[1]) = NULL

\* C8: a reprocess request for a failed record leaves it processing with
\* no error; a retry that succeeds leaves it success with no error; and
\* from one state to the next a record gets an error (or another error)
\* only in a step that applies a new failure to it.
C8_RetryDoesNotLeakError ==
    [][/\ last'.op = "reprocess" =>
            \A id \in Range(last'.ids) \cap Present' :
                Status(id)' = "processing" /\ Error(id)' = NULL
       /\ (last'.op \in {"singleDone", "rechunkDone"} /\ last'.resp.st = "ok") =>
            \A id \in Range(last'.ids) \cap Present' :
                Status(id)' = "success" /\ Error(id)' = NULL
       /\ pdfsDatabase' # pdfsDatabase =>
            \A id \in Present \cap Present' :
                (Error(id)' # NULL /\ Error(id)' # Error(id)) =>
                    FailureFor(last', id) # NULL]_vars

C8_Witness ==
    /\ last.op \in {"singleDone", "rechunkDone"}
    /\ last.resp.st = "ok"
    /\ last.from = "failed"
    /\ last.ids[1] \in Present \ overlapped
    /\ Status(last.ids[1]) = "success"
    /\ Error(last.ids[1]) = NULL

\* C9: in the state a batch response leaves, every record of the batch that
\* is in the store and has an item in the response shows that item's
\* outcome: failed with the item's error, or success with no error and the
\* item's chunk count.
C9_PerItemOutcome ==
    (/\ last.op = "batchDone"
     /\ last.resp.st = "ok"
     /\ Len(last.ids) >= 2) =>
        \A id \in Range(last.ids) \cap Present \cap DOMAIN last.resp.results :
            LET item == last.resp.results[id] IN
            IF item.success
            THEN /\ Status(id) = "success"
                 /\ Error(id) = NULL
                 /\ Chunks(id) = item.chunks_created
            ELSE /\ Status(id) = "failed"
                 /\ Error(id) = item.error

C9_Witness ==
    /\ last.op = "batchDone"
    /\ last.resp.st = "ok"
    /\ DOMAIN last.resp.results = Range(last.ids)
    /\ Range(last.ids) \subseteq Present
    /\ \E a, b \in Range(last.ids) :
        /\ ~last.resp.results[a].success /\ Status(a) = "failed"
        /\ Error(a) = last.resp.results[a].error
        /\ last.resp.results[b].success /\ Status(b) = "success"
        /\ Chunks(b) = last.resp.results[b].chunks_created
        /\ \E i, j \in 1..Len(last.ids) :
            i < j /\ last.ids[i] = a /\ last.ids[j] = b

\* C10: in the state a failed batch call leaves, every record of the batch
\* that is in the store is failed with the call's error message.
C10_BatchFailureMarksAll ==
    (last.op = "batchDone" /\ last.resp.st # "ok") =>
        \A id \in Range(last.ids) \cap Present :
            /\ Status(id) = "failed"
            /\ Error(id) = BatchMessage(last.resp)

C10_Witness ==
    /\ last.op = "batchDone"
    /\ last.resp.st = "http"
    /\ Len(last.ids) >= 2
    /\ Range(last.ids) \subseteq Present
    /\ \A id \in Range(last.ids) :
        Status(id) = "failed" /\ Error(id) = "RAG batch service error: boom"

\* The answer the single-item call would have had for id, given what the
\* batch call answered about id; NoResp when the answer has no item for id.
OutcomeFor(r, id) ==
    IF r.st = "net" THEN NetResp(r.err)
    ELSE IF r.st = "http" THEN HttpResp(r.err)
    ELSE IF id \notin DOMAIN r.results THEN NoResp
    ELSE IF r.results[id].success THEN OkResp(r.results[id].chunks_created)
    ELSE HttpResp(r.results[id].error)

\* C11: a batch completion leaves every record of the batch that is in the
\* store and has an outcome in the answer with the status, the presence of
\* an error and the chunk count that processPdfWithRag's completion would
\* have left it with for the same outcome.
C11_BatchLikeSingle ==
    [][last'.op = "batchDone" =>
        \A id \in Range(last'.ids) \cap Present :
            \A o \in {OutcomeFor(last'.resp, id)} \ {NoResp} :
                \A s \in {Rec(ProcessPdfWithRagDone(Machine, id, o).db, id)},
                   b \in {Rec(pdfsDatabase', id)} :
                    /\ b.ragStatus = s.ragStatus
                    /\ (b.ragError = NULL) <=> (s.ragError = NULL)
                    /\ b.chunksCount = s.chunksCount]_vars

C11_Witness ==
    /\ last.op = "batchDone"
    /\ last.resp.st = "ok"
    /\ \E a, b \in Range(last.ids) \cap Present \cap DOMAIN last.resp.results :
        /\ last.resp.results[a].success
        /\ last.resp.results[a].chunks_created > 0
        /\ Status(a) = "success" /\ Error(a) = NULL
        /\ Chunks(a) = last.resp.results[a].chunks_created
        /\ ~last.resp.results[b].success
        /\ Status(b) = "failed" /\ Error(b) # NULL /\ Chunks(b) = 0

ProcessingKinds == {"single", "batch", "rechunk"}

\* The processing requests in flight.
ProcessingTasks(bag) == {t \in BagToSet(bag) : t.kind \in ProcessingKinds}

\* C12: the upload step starts exactly one fetch, which carries all the
\* records of the upload: to the single-item endpoint for one file, to the
\* batch endpoint for more; and no completion step starts a fetch.
C12_OneRequestPerUpload ==
    [][/\ last'.op = "upload" =>
            \E t \in BagToSet(tasks') :
                /\ tasks' = tasks (+) SetToBag({t})
                /\ t.ids = last'.ids
                /\ t.kind = IF Len(last'.ids) = 1 THEN "single" ELSE "batch"
       /\ last'.op \in Completions => tasks' \sqsubseteq tasks]_vars

C12_Witness ==
    /\ last.op = "upload"
    /\ Len(last.ids) >= 2
    /\ \E t \in Tasks : t.kind = "batch" /\ t.ids = last.ids
    /\ \A t \in Tasks : CopiesIn(t, tasks) = 1

\* A step starts a processing request only as the upload handler or as a
\* reprocess handler resuming, one request for one reprocess request.
RequestsOnlyFromClients ==
    /\ last'.op \in Completions => tasks' \sqsubseteq tasks
    /\ last'.op \notin {"upload", "reprocessResume"} =>
            ProcessingTasks(tasks') \subseteq ProcessingTasks(tasks)
    /\ last'.op = "reprocessResume" =>
            BagCardinality(tasks') <= BagCardinality(tasks)

\* C13 as stated: processing requests come from upload and reprocess
\* requests only, and a failed record stays failed until a reprocess
\* request for it arrives.
C13_Original ==
    [][/\ RequestsOnlyFromClients
       /\ \A id \in Present \cap Present' :
            (Status(id) = "failed" /\ Status(id)' # "failed") =>
                (last'.op = "reprocess" /\ last'.ids = <<id>>)]_vars

\* C13 amended: the same, the second part for every record for which no
\* reprocess request was accepted while another operation was in flight.
C13_NoAutomaticRetry ==
    [][/\ RequestsOnlyFromClients
       /\ pdfsDatabase' # pdfsDatabase =>
            \A id \in (Present \cap Present') \ overlapped' :
                (Status(id) = "failed" /\ Status(id)' # "failed") =>
                    (last'.op = "reprocess" /\ last'.ids = <<id>>)]_vars

C13_Witness ==
    /\ last.op \in {"singleDone", "rechunkDone"}
    /\ last.resp.st # "ok"
    /\ last.ids[1] \in Present \ overlapped
    /\ Status(last.ids[1]) = "failed"
    /\ ~Busy(last.ids[1])
    /\ tasks = EmptyBag

\* C14: the run of a reprocess request sends the delete-index request and
\* nothing else; the extraction (or rechunk) request for the record is sent
\* by the run that resumes when that fetch has settled, whatever it answered.
C14_DeleteIndexBeforeProcessing ==
    [][/\ last'.op = "reprocess" =>
            \E d \in BagToSet(tasks') :
                /\ tasks' = tasks (+) SetToBag({d})
                /\ d.kind = "reprocessDel" /\ d.ids = last'.ids
       /\ last'.op = "reprocessResume" =>
            \E d \in Tasks, t \in BagToSet(tasks') :
                /\ d.kind = "reprocessDel" /\ d.ids = last'.ids
                /\ t.kind = (IF d.rechunkOnly THEN "rechunk" ELSE "single")
                /\ t.ids = d.ids
                /\ tasks' = (tasks (-) SetToBag({d})) (+) SetToBag({t})]_vars

C14_Witness ==
    /\ last.op = "reprocessResume"
    /\ last.resp.st # "ok"
    /\ \E t \in Tasks : t.kind \in {"single", "rechunk"} /\ t.ids = last.ids

\* C15: when a reprocess request with rechunkOnly = true resumes, the one
\* request it sends is the rechunk request, whose body has no extractor
\* mode; and when a rechunk request has settled, with success or not, no
\* request is sent.
C15_RechunkOnlyNeverExtracts ==
    [][/\ last'.op = "reprocessResume" =>
            \A d \in Tasks :
                (d.kind = "reprocessDel" /\ d.opts.rechunkOnly
                    /\ ~(SetToBag({d}) \sqsubseteq tasks')) =>
                \E t \in BagToSet(tasks') :
                    /\ tasks' = (tasks (-) SetToBag({d})) (+) SetToBag({t})
                    /\ t.kind = "rechunk" /\ t.ids = d.ids
                    /\ "extractor_mode" \notin DOMAIN t.body
       /\ last'.op = "rechunkDone" => tasks' \sqsubseteq tasks
       /\ \A t \in BagToSet(tasks') :
            t.kind = "rechunk" => "extractor_mode" \notin DOMAIN t.body]_vars

C15_Witness ==
    /\ last.op = "reprocessResume"
    /\ \E t \in Tasks :
        /\ t.kind = "rechunk" /\ t.ids = last.ids
        /\ t.opts.rechunkOnly /\ Truthy(t.opts.extractor_mode)

\* What /rechunk answers for a record without an extraction cache: an error
\* status with a text; the orchestrator reads it like any other.
CacheMissResps == {HttpResp(b) : b \in HttpBodies}

\* C16: after a rechunk request for a record that was success or failed
\* has been answered with the cache-miss error, the record has the status
\* it had before the request, and no error if it had none.
C16_CacheMissLeavesRecord ==
    \A id \in Present \ overlapped :
        (/\ last.op = "rechunkDone" /\ last.ids = <<id>>
         /\ last.resp \in CacheMissResps
         /\ last.from \in Terminal)
        => /\ Status(id) = last.from
           /\ last.from = "success" => Error(id) = NULL

\* C17: the step that accepts an upload answers it with 201 while its
\* processing request is still in flight, with every record in the store
\* and in the file; and a request that then fails for the network removes
\* none of them.
C17_UploadAnsweredAtOnce ==
    [][/\ last'.op = "upload" =>
            /\ last'.reply = Created
            /\ \E t \in BagToSet(tasks') :
                t.kind \in {"single", "batch"} /\ t.ids = last'.ids
            /\ \A id \in Range(last'.ids) :
                InStore(pdfsDatabase', id) /\ InStore(disk', id)
       /\ (last'.op \in {"singleDone", "batchDone"} /\ last'.resp.st = "net") =>
            \A id \in Range(last'.ids) \cap Present :
                InStore(pdfsDatabase', id) /\ InStore(disk', id)]_vars

C17_Witness ==
    /\ last.op \in {"singleDone", "batchDone"}
    /\ last.resp.st = "net"
    /\ last.from = "new"
    /\ \A id \in Range(last.ids) :
        id \in Present /\ InStore(disk, id) /\ Status(id) = "failed"

\* C18: the step that accepts a reprocess request, which sets the record to
\* processing and saves, answers the request.
C18_ReprocessAnsweredAtOnce ==
    last.op = "reprocess" => last.reply = Ok

\* C19: no step removes a record whose status is processing.
C19_NotRemovedWhileProcessing ==
    [][\A id \in Present \ Present' : Status(id) # "processing"]_vars

\* C20: a delete request sends only the delete-index request; the step that
\* resumes when it has settled, whatever it answered, reports success and
\* the record named by the request is no longer in the store.
C20_DeleteWaitsThenRemoves ==
    [][/\ last'.op = "delete" =>
            /\ pdfsDatabase' = pdfsDatabase
            /\ \E d \in BagToSet(tasks') :
                /\ tasks' = tasks (+) SetToBag({d})
                /\ d.kind = "delete" /\ d.ids = last'.ids
       /\ last'.op = "deleteDone" =>
            /\ last'.reply = Ok
            /\ last'.ids[1] \notin Present']_vars

UnknownOps == {"reprocessUnknown", "tagsUnknown", "deleteUnknown"}

\* C21: the step that handles a reprocess, tag-update or delete request
\* naming an identifier that is not in the store answers 404, sends nothing
\* to the Retrieval Service and leaves the store and the file as they were.
C21_UnknownIdRejected ==
    [][last'.op \in UnknownOps =>
        /\ last'.reply = NotFound
        /\ tasks' = tasks
        /\ pdfsDatabase' = pdfsDatabase
        /\ disk' = disk]_vars

C21_Witness ==
    /\ last.op \in UnknownOps
    /\ last.reply = NotFound
    /\ last.ids[1] \notin Present
    /\ pdfsDatabase # <<>>

\* C22: every extractor mode, chunker mode and merge window in the body of
\* a processing request in flight is one of the advertised values.
C22_OptionsWithinAdvertised ==
    \A t \in Tasks :
        t.kind \in ProcessingKinds =>
            \A f \in DOMAIN t.body \cap OptionNames :
                t.body[f] = NULL \/ t.body[f] \in Advertised(f)

\* ------------------------------------------------------- Chatbot claims
\* The assistant messages a turn has put into the transcript.
Answers(k) ==
    {i \in DOMAIN messages : messages[i].id = turns[k].botMessageId}
\* The user message of the generation request a turn has sent.
Asked(k) == turns[k].request[Len(turns[k].request)].content
Requested(k) == turns[k].request # <<>>
Unaugmented(k) ==
    /\ Requested(k) => Asked(k) = turns[k].userInput
    /\ \A i \in Answers(k) : messages[i].sources = <<>>

\* C23: a turn sent while ragEnabled is false never sends a retrieval
\* query, sends the user's message as typed to the Generation Service, and
\* its assistant message has no citations.
C23_NoRetrievalWhenDisabled ==
    \A k \in DOMAIN turns : ~turns[k].ragEnabled =>
        /\ ~turns[k].queried
        /\ turns[k].retrieval = NoOutcome
        /\ Unaugmented(k)

C23_Witness ==
    \E k \in DOMAIN turns :
        /\ ~turns[k].ragEnabled /\ ragAvailable
        /\ turns[k].pc = "done" /\ turns[k].messageCreated
        /\ Asked(k) = turns[k].userInput

\* C24: a turn whose retrieval query is answered with zero results still
\* sends its generation request, with the user's message as typed, and its
\* assistant message has no citations.
C24_ZeroResultsStillGenerates ==
    \A k \in DOMAIN turns : turns[k].retrieval = OkOutcome(<<>>) =>
        /\ turns[k].ragEnabled
        /\ Requested(k)
        /\ Unaugmented(k)

C24_Witness ==
    \E k \in DOMAIN turns :
        /\ turns[k].retrieval = OkOutcome(<<>>)
        /\ turns[k].pc = "done" /\ turns[k].messageCreated
        /\ \E i \in Answers(k) : messages[i].text = turns[k].fullText

\* C25: a retrieval query that fails, by a network error or a non-2xx
\* answer (the backend's own answer when the Retrieval Service fails), does
\* not end the turn: nothing is retrieved, and the generation request is
\* sent with the user's message as typed and no citations.
RetrievalFailed(k) == turns[k].retrieval.kind \in {"net", "http"}
C25_RetrievalFailureIsZeroResults ==
    \A k \in DOMAIN turns : RetrievalFailed(k) =>
        /\ Requested(k)
        /\ turns[k].ragContext = <<>> /\ turns[k].sources = <<>>
        /\ Unaugmented(k)
        /\ \A i \in Answers(k) :
                messages[i].text = FallbackText => turns[k].generation # "none"

C25_Witness ==
    \E k \in DOMAIN turns :
        /\ turns[k].retrieval = RagQueryRelay(NetOutcome)
        /\ turns[k].pc = "done" /\ turns[k].messageCreated

\* C26: when the generation request of a turn fails (the fetch rejects, or
\* the answer is not 2xx), the step that learns it appends one assistant
\* message with the fixed fallback text and ends the pending state, and
\* that message stays the turn's only assistant message.
GenerationFailed(t) == t.generation \in {"net", "http"}
C26_GenerationFailureFallsBack ==
    [][\A k \in DOMAIN turns' : GenerationFailed(turns'[k]) =>
          /\ turns'[k].pc = "done"
          /\ Cardinality({i \in DOMAIN messages' :
                            messages'[i].id = turns'[k].botMessageId}) = 1
          /\ \A i \in DOMAIN messages' :
                messages'[i].id = turns'[k].botMessageId =>
                    messages'[i] = Message(turns'[k].botMessageId, FallbackText, "bot", <<>>)
          /\ ~GenerationFailed(turns[k]) =>
                /\ ~isLoading'
                /\ Len(messages') = Len(messages) + 1]_vars

C26_Witness ==
    \E k \in DOMAIN turns :
        /\ turns[k].generation = "http" /\ turns[k].pc = "done"
        /\ ~isLoading
        /\ messages[Len(messages)].text = FallbackText

\* C27: within one turn the generation request is sent only after the
\* retrieval query, if one was sent, has been answered or has failed: the
\* two are never in flight together.
C27_RetrievalBeforeGeneration ==
    \A k \in DOMAIN turns :
        /\ turns[k].queried /\ Requested(k) => turns[k].retrieval # NoOutcome
        /\ turns[k].pc = "retrieving" => ~Requested(k)

C27_Witness ==
    \E k \in DOMAIN turns :
        /\ turns[k].queried /\ turns[k].pc = "generating"
        /\ turns[k].retrieval = OkOutcome(<<HitA, HitB>>)
        /\ Asked(k) = FinalUserContent(RagContext(<<HitA, HitB>>), turns[k].userInput)

\* C28: a turn is pending from its send until its first non-empty content
\* increment arrives (or until it ends without one): as long as the turn
\* has neither ended nor created its assistant message, isLoading is true.
Waiting(k) == turns[k].pc # "done" /\ ~turns[k].messageCreated
C28_PendingUntilFirstIncrement ==
    \A k \in DOMAIN turns : Waiting(k) => isLoading

\* C29: when the stream of a turn ends, the text accumulated for the turn,
\* and shown in its assistant message, is the in-order concatenation of the
\* content of every line the Generation Service wrote, however the lines
\* were split into reads.
C29_TextIsConcatenation ==
    \A k \in DOMAIN turns : last = ChatLabel("end", k) =>
        /\ turns[k].fullText = turns[k].written
        /\ \A i \in Answers(k) : messages[i].text = turns[k].written
        /\ turns[k].written # <<>> => Answers(k) # {}

\* C30: the generation request of a turn holds every message the
\* transcript had before the turn that has text, in transcript order, user
\* messages as user and the others as assistant, each with its text only,
\* and after them exactly one new user message.
PriorTurns(msgs) ==
    LET texted == SelectSeq(msgs, LAMBDA msg : msg.text # <<>>)
    IN  [i \in DOMAIN texted |->
            [role |-> IF texted[i].sender = "user" THEN "user" ELSE "assistant",
             content |-> texted[i].text]]
C30_HistoryHoldsEveryPriorTurn ==
    \A k \in DOMAIN turns : Requested(k) =>
        /\ SubSeq(turns[k].request, 1, Len(turns[k].request) - 1)
                = PriorTurns(turns[k].history)
        /\ turns[k].request[Len(turns[k].request)].role = "user"

\* C31: when the retrieval query of a turn returned results, the context
\* block holds one entry per result and the citation list one citation per
\* result, both in the order of the results, and each citation has the
\* filename, page, tags and similarity of its result.
Citation(r) ==
    [filename |-> r.filename, page |-> r.page, tags |-> r.tags,
     similarity |-> r.similarity]
Retrieved(k) == turns[k].retrieval.kind = "ok" /\ turns[k].retrieval.results # <<>>
C31_OneEntryPerResultInOrder ==
    \A k \in DOMAIN turns : Retrieved(k) =>
        \A results \in {turns[k].retrieval.results} :
            /\ turns[k].ragContext =
                    Join([i \in DOMAIN results |-> ContextEntry(results[i], i)], <<"---">>)
            /\ Len(turns[k].sources) = Len(results)
            /\ \A i \in DOMAIN results : turns[k].sources[i] = Citation(results[i])

\* The same without the tags: the part of C31 the code keeps.
C31_OrderKept ==
    \A k \in DOMAIN turns : Retrieved(k) =>
        \A results \in {turns[k].retrieval.results} :
            /\ Len(turns[k].sources) = Len(results)
            /\ \A i \in DOMAIN results :
                    /\ turns[k].sources[i].filename = results[i].filename
                    /\ turns[k].sources[i].page = results[i].page
                    /\ turns[k].sources[i].similarity = results[i].similarity

\* C32: once a new turn has been sent, or the transcript has been replaced
\* by a new chat or a loaded session, the stream of an earlier turn is no
\* longer relayed: no later step of that turn adds a message to the
\* transcript or changes one.
Superseded(k) == k < Len(turns) \/ turns[k].left
C32_EarlierStreamStopsRelaying ==
    [][\A k \in DOMAIN turns :
          last' = ChatLabel("read", k) /\ Superseded(k) => messages' = messages]_vars

\* C40: a turn puts at most one assistant message into the transcript,
\* wherever its generation fails.
C40_AtMostOneAssistantMessage ==
    \A k \in DOMAIN turns : Cardinality(Answers(k)) <= 1

\* ------------------------------------------------------- session claims
\* C33: deriving the name of a session ends with a name that is not empty,
\* and the save goes on with it; when the naming request failed or its
\* stream broke, the name is the start of the first user message, up to
\* NameWords words and NameChars characters, or 'New Chat' when there is
\* no such text.
Named(k) == saves[k].pc \notin {"start", "naming", "titling"}
FirstUserText(msgs) == IF UserTexts(msgs) = <<>> THEN <<>> ELSE UserTexts(msgs)[1]
Spaces(s) == Cardinality({i \in DOMAIN s : s[i] = " "})
CutOf(name, text) ==
    /\ name = SubSeq(text, 1, Len(name))
    /\ Len(name) <= NameChars
    /\ Spaces(name) < NameWords
    /\ \/ name = text
       \/ Len(name) = NameChars
       \/ Spaces(name) = NameWords - 1 /\ text[Len(name) + 1] = " "
StoredIds(db) == {db[i].id : i \in DOMAIN db}
Evicted == {i \in DOMAIN chatsDatabase : chatsDatabase[i].id \notin StoredIds(chatsDatabase')}
C34_EvictsLeastRecentlySaved ==
    [][last'.op = "postChat" =>
          /\ Len(chatsDatabase') <= MaxChats
          /\ \A i \in Evicted : \A j \in DOMAIN chatsDatabase' :
                chatsDatabase[i].date <= chatsDatabase'[j].date]_vars

\* The cap alone.
C34_AtMostMaxChats == Len(chatsDatabase) <= MaxChats

\* C35: a save is an upsert by identifier. After a save no two stored
\* sessions share an identifier; a save under a stored identifier puts the
\* posted name, transcript and date in that session's place and leaves the
\* other sessions and the count as they were; a save under a new identifier
\* adds that session and no other, once, in front of the sessions kept.
Upserted ==
    \E chat \in {last'.chat} : \E i \in {ChatIndex(chatsDatabase, chat.id)} :
        /\ \A j, k \in DOMAIN chatsDatabase' :
              chatsDatabase'[j].id = chatsDatabase'[k].id => j = k
        /\ i > 0 =>
              /\ Len(chatsDatabase') = Len(chatsDatabase)
              /\ chatsDatabase'[i] = chat
              /\ \A j \in DOMAIN chatsDatabase \ {i} : chatsDatabase'[j] = chatsDatabase[j]
        /\ i = 0 =>
              /\ StoredIds(chatsDatabase') \ StoredIds(chatsDatabase) = {chat.id}
              /\ chatsDatabase'[1] = chat
              /\ \A j \in 2..Len(chatsDatabase') : chatsDatabase'[j] = chatsDatabase[j - 1]
              /\ Len(chatsDatabase) < MaxChats => Len(chatsDatabase') = Len(chatsDatabase) + 1
C35_SaveIsUpsertById == [][last'.op = "postChat" => Upserted]_vars

\* A save has replaced the last session of a full store where it stood.
C35_Witness ==
    /\ last.op = "postChat"
    /\ last.chat.id = ToString(1)
    /\ Len(chatsDatabase) = MaxChats
    /\ chatsDatabase[MaxChats] = last.chat
    /\ last.chat.name # NewChatName

\* C36: every call answers with a configuration: the one the Retrieval
\* Service gave when the fetch succeeded, and the built-in one when the
\* service was unreachable, answered outside 2xx or answered with something
\* that is no configuration.
IsConfig(c) == DOMAIN c = {"defaults", "options"}
Live(service) == service.kind = "json" /\ IsConfig(service.body)
C36_AlwaysAConfiguration ==
    last.op = "getConfig" =>
        /\ IsConfig(last.config)
        /\ Live(last.service) => last.config = last.service.body
        /\ ~Live(last.service) => last.config = ConfigDefaults

C38_DeleteRemovesExactlyItsRecord ==
    [][last'.op = "deleteDone" =>
          /\ last'.ids[1] \notin Present'
          /\ Present \ Present' \subseteq {last'.ids[1]}]_vars

\* C39: when the request of a processPdfWithRag, batch or rechunkPdf call
\* settles and a record it was for is no longer in the store, the step
\* puts no record into the store, and every record that the call was not
\* for stays as it was.
Gone == Range(last'.ids) \ Present
C39_CompletionAfterRemoval ==
    [][last'.op \in Completions /\ Gone # {} =>
          /\ Present' = Present
          /\ \A id \in Present \ Range(last'.ids) :
                Rec(pdfsDatabase', id) = Rec(pdfsDatabase, id)
          /\ Len(pdfsDatabase') = Len(pdfsDatabase)]_vars

\* A rechunk has completed for a record deleted meanwhile, with another
\* record in the store.
C39_Witness ==
    /\ last.op = "rechunkDone"
    /\ last.ids[1] \notin Present
    /\ Present # {}

====
